---- MODULE Spec2Model ----
(***************************************************************************)
(* laymur-particle-system: the emission scheduler                          *)
(* (UIUniformInTimeEmitter), the rectangle emitter's particle factory      *)
(* (UIRectangleEmitter.spawn) and the particle system (UIParticleSystem:   *)
(* spawnParticle, render, updateParticle, removeParticles,                 *)
(* updateInstanceAttributes, lerpArray, lerpColorArray).                   *)
(*                                                                         *)
(* Numbers.  The code computes in IEEE doubles; the model computes in      *)
(* exact arithmetic.  Times (deltaTime, currentTime, playbackDuration, a   *)
(* particle's lifetime, elapsedTime) are integers in one common time unit. *)
(* Playback durations are multiples of TimeBase, so that                   *)
(* step = duration / max(1, totalAmount - 1) is an integer.  A particle's  *)
(* lifeTime (a fraction of its lifetime in the code) is kept as the        *)
(* numerator over the denominator lifeSpan, with lifeTimeFactor =          *)
(* 1 / lifeSpan.  Curve values (scale, opacity, colour channels) are exact *)
(* rationals <<n, d>> in lowest terms with d > 0; <<0, 0>> is NaN.  Angles *)
(* in radians are counted in units of pi/180.                              *)
(***************************************************************************)
EXTENDS Integers, Sequences, FiniteSets, TLC

(***************************************************************************)
(* Bounds of the model.                                                    *)
(***************************************************************************)
MaxSpawnAmount == 3
MaxDeltaTime == 2
MaxCycles == 2
MaxRequests == 3
RandomDen == 2
MaxFactorDen == 4
MaxEmitterScale == 2

\* The capacities a particle system is constructed with.
Capacities == {1, 2}
MinCapacity == CHOOSE c \in Capacities : \A d \in Capacities : c <= d
MaxCapacity == CHOOSE c \in Capacities : \A d \in Capacities : c >= d

VARIABLES
    emitters,                 \* the emitters that were constructed
    options,                  \* e -> the emitter's readonly configuration
    isPlayingInternal,        \* e -> playback state
    currentTime,              \* e -> time position within the cycle
    lastTimeParticleAmount,   \* e -> particles spawned up to the last update
    capacity,                 \* instanceTransform.count, fixed at construction
    gravity,                  \* <<x, y>>
    particles,                \* the array of active particles
    instanceCount,            \* instancedGeometry.instanceCount
    instanceTransform,        \* i -> <<x, y, z, rotation>>
    instanceScale,            \* i -> <<sx, sy>>
    instanceColor,            \* i -> <<r, g, b, opacity>>
    elapsed,                  \* history: e -> sum of deltaTime ticked while playing since play()
    spawnCount,               \* history: e -> spawn() invocations since play()
    calls,                    \* history: the elapsedTime arguments of the last emitter render
    lastTarget,               \* history: e -> the last target index of the cycle
    requests,                 \* history: spawnParticle calls since the last system render
    replayed,                 \* history: e -> whether a recorded play() restarted it after a stop
    evicted,                  \* history: particles the last recorded system render removed from a full array
    lastOp                    \* history: the operation that produced this state

emitterVars == <<emitters, options, isPlayingInternal, currentTime, lastTimeParticleAmount>>
systemVars == <<capacity, gravity, particles, instanceCount, instanceTransform,
                instanceScale, instanceColor>>
historyVars == <<elapsed, spawnCount, calls, lastTarget, requests, replayed, evicted,
                 lastOp>>
vars == <<emitterVars, systemVars, historyVars>>

(***************************************************************************)
(* Arithmetic helpers.                                                     *)
(***************************************************************************)
Min(a, b) == IF a <= b THEN a ELSE b
Max(a, b) == IF a >= b THEN a ELSE b
Abs(a) == IF a < 0 THEN -a ELSE a

RECURSIVE GCD(_, _)
GCD(a, b) == IF b = 0 THEN a ELSE GCD(b, a % b)

RECURSIVE LCMUpTo(_)
LCMUpTo(n) == IF n <= 1 THEN 1
              ELSE LET m == LCMUpTo(n - 1) IN (m * n) \div GCD(m, n)

\* One time unit is chosen so that every duration / max(1, totalAmount - 1) is exact.
TimeBase == LCMUpTo(Max(1, MaxSpawnAmount - 1))

NaN == <<0, 0>>
IsNaN(q) == q[2] = 0
Rat(n, d) == IF d = 0 THEN NaN
             ELSE LET g == GCD(Abs(n), Abs(d))
                      s == IF d < 0 THEN -1 ELSE 1
                  IN <<(s * n) \div g, (s * d) \div g>>
Num(n) == <<n, 1>>
RatAdd(p, q) == IF IsNaN(p) \/ IsNaN(q) THEN NaN
                ELSE Rat(p[1] * q[2] + q[1] * p[2], p[2] * q[2])
RatMul(p, q) == IF IsNaN(p) \/ IsNaN(q) THEN NaN
                ELSE Rat(p[1] * q[1], p[2] * q[2])
RatSub(p, q) == RatAdd(p, RatMul(Num(-1), q))

\* MathUtils.lerp(x, y, t) = (1 - t) * x + t * y
Lerp(x, y, t) == RatAdd(RatMul(RatSub(Num(1), t), x), RatMul(t, y))

\* array[index] of a JavaScript array: undefined outside 0 .. length - 1; an
\* undefined operand makes the arithmetic of lerp yield NaN.
At(array, index) == IF index \in 0 .. (Len(array) - 1) THEN array[index + 1] ELSE NaN

(***************************************************************************)
(* UIParticleSystem (src/unnamed/part_005).                                *)
(*                                                                         *)
(* A particle is a record                                                  *)
(*   lifeTime, lifeSpan     the code's lifeTime is lifeTime / lifeSpan and *)
(*                          its lifeTimeFactor is 1 / lifeSpan             *)
(*   position, velocity     <<x, y>>                                       *)
(*   rotation, angularVelocity                                             *)
(*   scale                  <<x, y>> of rationals                          *)
(*   opacity, color         a rational, <<r, g, b>> of rationals           *)
(*   scaleOverTime, opacityOverTime, colorOverTime   the curves            *)
(*   lived, preAged         history: the deltaTime of the system renders   *)
(*                          since admission, the elapsedTime at admission  *)
(***************************************************************************)
zIndex == 0

Floor(q) == q[1] \div q[2]

\* An evaluation that takes the control point below the factor, without blending.
lerpArrayNearest(factor, array) ==
    At(array, Floor(RatMul(Num(Len(array) - 1), factor)))

lerpArray(factor, array) ==
    LET lastIndex == Len(array) - 1
        exactIndex == RatMul(Num(lastIndex), factor)
        floorIndex == Floor(exactIndex)
        ceilIndex == Min(floorIndex + 1, lastIndex)
    IN Lerp(At(array, floorIndex), At(array, ceilIndex),
            RatSub(exactIndex, Num(floorIndex)))

\* array[index] of an array of Color objects; <<>> stands for undefined.
Undefined == <<>>
ColorAt(array, index) ==
    IF index \in 0 .. (Len(array) - 1) THEN array[index + 1] ELSE Undefined

\* fromColor.r (or toColor.r) of an undefined colour raises a TypeError.
lerpColorArrayThrows(factor, array) ==
    LET lastIndex == Len(array) - 1
        exactIndex == RatMul(Num(lastIndex), factor)
        floorIndex == Floor(exactIndex)
        ceilIndex == Min(floorIndex + 1, lastIndex)
    IN \/ ColorAt(array, floorIndex) = Undefined
       \/ ColorAt(array, ceilIndex) = Undefined

lerpColorArray(factor, array) ==
    LET lastIndex == Len(array) - 1
        exactIndex == RatMul(Num(lastIndex), factor)
        floorIndex == Floor(exactIndex)
        ceilIndex == Min(floorIndex + 1, lastIndex)
        fromColor == ColorAt(array, floorIndex)
        toColor == ColorAt(array, ceilIndex)
        t == RatSub(exactIndex, Num(floorIndex))
    IN <<Lerp(fromColor[1], toColor[1], t),
         Lerp(fromColor[2], toColor[2], t),
         Lerp(fromColor[3], toColor[3], t)>>

\* A death test that also ends a particle exactly at the end of its life.
isDeadAtEnd(particle) == particle.lifeTime >= particle.lifeSpan

\* A death test that never ends a particle.
neverDead(particle) == FALSE

\* particle.lifeTime > 1, with lifeTime = lifeTime / lifeSpan
isDead(particle) == particle.lifeTime > particle.lifeSpan

\* An update that moves the particle and samples its curves before the death
\* test, at the age the particle had before the update.
updateParticleMovesFirst(particle, deltaTime) ==
    LET factor == Rat(particle.lifeTime, particle.lifeSpan)
        velocity == <<particle.velocity[1] + gravity[1] * deltaTime,
                      particle.velocity[2] + gravity[2] * deltaTime>>
        scale == lerpArray(factor, particle.scaleOverTime)
        moved == [particle EXCEPT
                     !.lifeTime = @ + deltaTime,
                     !.velocity = velocity,
                     !.position = <<@[1] + velocity[1] * deltaTime,
                                    @[2] + velocity[2] * deltaTime>>,
                     !.rotation = @ + particle.angularVelocity * deltaTime,
                     !.scale = <<scale, scale>>,
                     !.opacity = lerpArray(factor, particle.opacityOverTime)]
    IN IF lerpColorArrayThrows(factor, particle.colorOverTime)
       THEN [particle |-> moved, alive |-> FALSE, threw |-> TRUE]
       ELSE [particle |->
                [moved EXCEPT !.color = lerpColorArray(factor, particle.colorOverTime)],
             alive |-> ~isDead(moved), threw |-> FALSE]

\* updateParticle(particle, deltaTime): the particle as the call leaves it, the
\* boolean it returns, and whether it raised instead of returning.
updateParticle(particle, deltaTime) ==
    LET aged == [particle EXCEPT !.lifeTime = @ + deltaTime]
        factor == Rat(aged.lifeTime, aged.lifeSpan)
        velocity == <<aged.velocity[1] + gravity[1] * deltaTime,
                      aged.velocity[2] + gravity[2] * deltaTime>>
        position == <<aged.position[1] + velocity[1] * deltaTime,
                      aged.position[2] + velocity[2] * deltaTime>>
        scale == lerpArray(factor, aged.scaleOverTime)
        moved == [aged EXCEPT !.velocity = velocity,
                              !.position = position,
                              !.rotation = @ + aged.angularVelocity * deltaTime,
                              !.scale = <<scale, scale>>,
                              !.opacity = lerpArray(factor, aged.opacityOverTime)]
    IN IF isDead(aged)
       THEN [particle |-> aged, alive |-> FALSE, threw |-> FALSE]
       ELSE IF lerpColorArrayThrows(factor, aged.colorOverTime)
       THEN [particle |-> moved, alive |-> FALSE, threw |-> TRUE]
       ELSE [particle |->
                [moved EXCEPT !.color = lerpColorArray(factor, aged.colorOverTime)],
             alive |-> TRUE, threw |-> FALSE]

newParticle(spawnOptions, elapsedTime) ==
    [lifeTime |-> 0,
     lifeSpan |-> spawnOptions.lifeTime,
     position |-> spawnOptions.position,
     rotation |-> spawnOptions.rotation,
     scale |-> <<At(spawnOptions.scaleOverTime, 0), At(spawnOptions.scaleOverTime, 0)>>,
     scaleOverTime |-> spawnOptions.scaleOverTime,
     opacity |-> At(spawnOptions.opacityOverTime, 0),
     opacityOverTime |-> spawnOptions.opacityOverTime,
     color |-> ColorAt(spawnOptions.colorOverTime, 0),
     colorOverTime |-> spawnOptions.colorOverTime,
     velocity |-> spawnOptions.velocity,
     angularVelocity |-> spawnOptions.angularVelocity,
     lived |-> 0,
     preAged |-> elapsedTime]

\* A capacity test that never rejects, and one that rejects a request too late.
neverFull(list) == FALSE
isOverfull(list) == Len(list) > capacity

isFull(list) == Len(list) >= capacity

\* A spawnParticle that admits the new particle without pre-simulating it.
spawnParticleUnaged(list, spawnOptions, elapsedTime) ==
    IF isFull(list)
    THEN list
    ELSE Append(list, newParticle(spawnOptions, elapsedTime))

\* A spawnParticle that makes room in a full array by dropping its oldest particle.
spawnParticleRecycling(list, spawnOptions, elapsedTime) ==
    LET room == IF isFull(list) THEN Tail(list) ELSE list
        particle == newParticle(spawnOptions, elapsedTime)
        updated == updateParticle(particle, elapsedTime)
    IN IF elapsedTime = 0 THEN Append(room, particle)
       ELSE IF updated.alive THEN Append(room, updated.particle)
       ELSE list

\* A spawnParticle that puts the new particle in front of the array (unshift
\* for push), so that every particle already there changes its place.
spawnParticleInFront(list, spawnOptions, elapsedTime) ==
    IF isFull(list)
    THEN list
    ELSE LET particle == newParticle(spawnOptions, elapsedTime)
             updated == updateParticle(particle, elapsedTime)
         IN IF elapsedTime = 0 THEN <<particle>> \o list
            ELSE IF updated.alive THEN <<updated.particle>> \o list
            ELSE list

\* The particle array after spawnParticle(options, elapsedTime) on the array list.
spawnParticle(list, spawnOptions, elapsedTime) ==
    IF isFull(list)
    THEN list
    ELSE LET particle == newParticle(spawnOptions, elapsedTime)
             updated == updateParticle(particle, elapsedTime)
         IN IF elapsedTime = 0 THEN Append(list, particle)
            ELSE IF updated.alive THEN Append(list, updated.particle)
            ELSE list

\* Whether that call raised (in updateParticle) instead of returning.
spawnParticleThrows(list, spawnOptions, elapsedTime) ==
    /\ ~isFull(list)
    /\ elapsedTime # 0
    /\ updateParticle(newParticle(spawnOptions, elapsedTime), elapsedTime).threw

\* What the call hands back to its caller: spawnParticle is declared void and
\* both of its exits return undefined.
spawnParticleReturn(list, spawnOptions, elapsedTime) ==
    IF spawnParticleThrows(list, spawnOptions, elapsedTime) THEN "TypeError"
    ELSE "undefined"

indexOf(list, particle) ==
    IF \E i \in 1 .. Len(list) : list[i] = particle
    THEN (CHOOSE i \in 1 .. Len(list) :
             /\ list[i] = particle
             /\ \A j \in 1 .. (i - 1) : list[j] # particle) - 1
    ELSE -1

\* A removal that fills the hole with the last element instead of shifting the
\* elements after it (swap-remove).
spliceSwapping(list, index) ==
    IF index + 1 = Len(list) THEN SubSeq(list, 1, Len(list) - 1)
    ELSE [SubSeq(list, 1, Len(list) - 1) EXCEPT ![index + 1] = list[Len(list)]]

splice(list, index) == SubSeq(list, 1, index) \o SubSeq(list, index + 2, Len(list))

RECURSIVE removeParticles(_, _)
removeParticles(list, removedParticles) ==
    IF removedParticles = <<>> THEN list
    ELSE LET index == indexOf(list, Head(removedParticles))
         IN removeParticles(IF index # -1 THEN splice(list, index) ELSE list,
                            Tail(removedParticles))

\* The loop of updateInstanceAttributes over a particle array that is not empty:
\* record i of each attribute is written from particle i, the others are left
\* as they are, and instanceCount becomes the length of the array.
writeInstances(list) ==
    [instanceCount |-> Len(list),
     instanceTransform |->
         [i \in DOMAIN instanceTransform |->
             IF i < Len(list)
             THEN <<list[i + 1].position[1], list[i + 1].position[2], zIndex,
                    list[i + 1].rotation>>
             ELSE instanceTransform[i]],
     instanceScale |->
         [i \in DOMAIN instanceScale |->
             IF i < Len(list) THEN list[i + 1].scale ELSE instanceScale[i]],
     instanceColor |->
         [i \in DOMAIN instanceColor |->
             IF i < Len(list)
             THEN <<list[i + 1].color[1], list[i + 1].color[2], list[i + 1].color[3],
                    list[i + 1].opacity>>
             ELSE instanceColor[i]]]

\* A publish whose early return on an empty array leaves instanceCount alone.
returnsOnEmpty(list) ==
    IF Len(list) = 0
    THEN [instanceCount |-> instanceCount,
          instanceTransform |-> instanceTransform,
          instanceScale |-> instanceScale,
          instanceColor |-> instanceColor]
    ELSE writeInstances(list)

\* The instance count and the three instance attributes after
\* updateInstanceAttributes() with the particle array list.
updateInstanceAttributes(list) ==
    IF Len(list) = 0
    THEN [instanceCount |-> 0,
          instanceTransform |-> instanceTransform,
          instanceScale |-> instanceScale,
          instanceColor |-> instanceColor]
    ELSE writeInstances(list)

\* The update loop of render from index i on: the particle array (every visited
\* particle updated in place), the particles collected in removedParticles, and
\* whether updateParticle raised, which ends render there.
RECURSIVE renderLoop(_, _, _, _)
renderLoop(list, removedParticles, i, deltaTime) ==
    IF i > Len(list)
    THEN [particles |-> list, removedParticles |-> removedParticles, threw |-> FALSE]
    ELSE LET updated == updateParticle(list[i], deltaTime)
             visited == [updated.particle EXCEPT !.lived = @ + deltaTime]
             next == [list EXCEPT ![i] = visited]
         IN IF updated.threw
            THEN [particles |-> next, removedParticles |-> removedParticles,
                  threw |-> TRUE]
            ELSE renderLoop(next,
                            IF updated.alive THEN removedParticles
                            ELSE Append(removedParticles, visited),
                            i + 1, deltaTime)

(***************************************************************************)
(* UIRectangleEmitter.spawn (src/unnamed/part_002): the particle factory.  *)
(*                                                                         *)
(* A property that is "a number or a UIRange" is a record with kind        *)
(* "number" (min = max = the number) or kind "range".  Math.random() is a  *)
(* draw u / RandomDen with u in 0 .. RandomDen - 1; a spawn takes one      *)
(* record of draws, a field for each randFloat call site.                  *)
(***************************************************************************)
Fixed(value) == [kind |-> "number", min |-> value, max |-> value]
Range(min, max) == [kind |-> "range", min |-> min, max |-> max]

\* MathUtils.randFloat(low, high) = low + Math.random() * (high - low)
randFloat(low, high, u) ==
    RatAdd(Num(low), RatMul(Rat(u, RandomDen), Num(high - low)))

\* typeof value === "number" ? value : MathUtils.randFloat(value.min, value.max)
resolve(value, u) ==
    IF value.kind = "number" THEN Num(value.min) ELSE randFloat(value.min, value.max, u)

\* The configured ranges make these quantities whole numbers of the model's units.
Whole(q) == q[1] \div q[2]

\* MathUtils.degToRad(degrees) = degrees * (pi / 180), in units of pi / 180.
degToRad(degrees) == degrees

\* Math.cos and Math.sin at the multiples of a quarter turn.
cos(radians) == CASE radians % 360 = 0 -> 1
                  [] radians % 360 = 180 -> -1
                  [] OTHER -> 0
sin(radians) == CASE radians % 360 = 90 -> 1
                  [] radians % 360 = 270 -> -1
                  [] OTHER -> 0

\* new Color().setHex(value): the channels of 0xRRGGBB, each over 255.
setHex(hex) == <<Rat((hex \div 65536) % 256, 255),
                 Rat((hex \div 256) % 256, 255),
                 Rat(hex % 256, 255)>>

resolveColor(value, draws) ==
    IF value.kind = "number" THEN setHex(value.hex)
    ELSE IF value.kind = "color"
    THEN <<randFloat(value.rMin, value.rMax, draws.red),
           randFloat(value.gMin, value.gMax, draws.green),
           randFloat(value.bMin, value.bMax, draws.blue)>>
    ELSE LET color == randFloat(value.min, value.max, draws.curve)
         IN <<color, color, color>>

\* The values spawn resolves from the particle options of emitter e, before the
\* conversion to radians and the multiplication by emitterScale.
resolved(e, draws) ==
    LET o == options[e].particle
    IN [lifeTime |-> resolve(o.lifeTime, draws.lifeTime),
        positionX |-> randFloat(o.position.min[1], o.position.max[1], draws.positionX),
        positionY |-> randFloat(o.position.min[2], o.position.max[2], draws.positionY),
        angle |-> resolve(o.angle, draws.angle),
        velocityAngle |->
            randFloat(o.velocity.angleMin, o.velocity.angleMax, draws.velocityAngle),
        velocityPower |->
            randFloat(o.velocity.powerMin, o.velocity.powerMax, draws.velocityPower),
        angularVelocity |-> resolve(o.angularVelocity, draws.angularVelocity),
        scale |-> resolve(o.scale, draws.scale),
        scaleOverTime |->
            [i \in 1 .. Len(o.scaleOverTime) |->
                resolve(o.scaleOverTime[i], draws.curve)],
        colorOverTime |->
            [i \in 1 .. Len(o.colorOverTime) |-> resolveColor(o.colorOverTime[i], draws)],
        opacityOverTime |->
            [i \in 1 .. Len(o.opacityOverTime) |->
                resolve(o.opacityOverTime[i], draws.curve)]]

\* The velocity power of the spawn of src/unnamed/part_003:
\* MathUtils.degToRad(MathUtils.randFloat(velocity.angleMin, velocity.angleMax)),
\* as the number of degrees d whose radians d * pi / 180 are the power.
draftVelocityPower(e, draws) ==
    randFloat(options[e].particle.velocity.angleMin,
              options[e].particle.velocity.angleMax, draws.velocityPower)

\* A spawn that multiplies the whole position, the emitter's anchor included, by
\* emitterScale.
spawnRequestScalingAnchor(e, draws) ==
    LET o == options[e].particle
        emitterScale == options[e].emitterScale
        velocityAngle ==
            degToRad(Whole(randFloat(o.velocity.angleMin, o.velocity.angleMax,
                                     draws.velocityAngle)))
        velocityPower ==
            Whole(randFloat(o.velocity.powerMin, o.velocity.powerMax,
                            draws.velocityPower)) * emitterScale
        scaleFactor == Whole(resolve(o.scale, draws.scale)) * emitterScale
    IN [lifeTime |-> Whole(resolve(o.lifeTime, draws.lifeTime)),
        position |->
            <<(options[e].x + Whole(randFloat(o.position.min[1], o.position.max[1],
                                     draws.positionX))) * emitterScale,
              (options[e].y + Whole(randFloat(o.position.min[2], o.position.max[2],
                                     draws.positionY))) * emitterScale>>,
        rotation |-> degToRad(Whole(resolve(o.angle, draws.angle))),
        velocity |-> <<cos(velocityAngle) * velocityPower,
                       sin(velocityAngle) * velocityPower>>,
        angularVelocity |->
            degToRad(Whole(resolve(o.angularVelocity, draws.angularVelocity))),
        scaleOverTime |->
            [i \in 1 .. Len(o.scaleOverTime) |->
                RatMul(resolve(o.scaleOverTime[i], draws.curve), Num(scaleFactor))],
        colorOverTime |->
            [i \in 1 .. Len(o.colorOverTime) |-> resolveColor(o.colorOverTime[i], draws)],
        opacityOverTime |->
            [i \in 1 .. Len(o.opacityOverTime) |->
                resolve(o.opacityOverTime[i], draws.curve)]]

\* The options spawn(elapsedTime) of emitter e passes to system.spawnParticle.
spawnRequest(e, draws) ==
    LET o == options[e].particle
        emitterScale == options[e].emitterScale
        velocityAngle ==
            degToRad(Whole(randFloat(o.velocity.angleMin, o.velocity.angleMax,
                                     draws.velocityAngle)))
        velocityPower ==
            Whole(randFloat(o.velocity.powerMin, o.velocity.powerMax,
                            draws.velocityPower)) * emitterScale
        scaleFactor == Whole(resolve(o.scale, draws.scale)) * emitterScale
    IN [lifeTime |-> Whole(resolve(o.lifeTime, draws.lifeTime)),
        position |->
            <<options[e].x + Whole(randFloat(o.position.min[1], o.position.max[1],
                                    draws.positionX)) * emitterScale,
              options[e].y + Whole(randFloat(o.position.min[2], o.position.max[2],
                                    draws.positionY)) * emitterScale>>,
        rotation |-> degToRad(Whole(resolve(o.angle, draws.angle))),
        velocity |-> <<cos(velocityAngle) * velocityPower,
                       sin(velocityAngle) * velocityPower>>,
        angularVelocity |->
            degToRad(Whole(resolve(o.angularVelocity, draws.angularVelocity))),
        scaleOverTime |->
            [i \in 1 .. Len(o.scaleOverTime) |->
                RatMul(resolve(o.scaleOverTime[i], draws.curve), Num(scaleFactor))],
        colorOverTime |->
            [i \in 1 .. Len(o.colorOverTime) |-> resolveColor(o.colorOverTime[i], draws)],
        opacityOverTime |->
            [i \in 1 .. Len(o.opacityOverTime) |->
                resolve(o.opacityOverTime[i], draws.curve)]]

\* The options the spawn(elapsedTime) of the rectangle emitter that has no
\* emitterScale (src/src/Emitters/UIRectangleEmitter.ts) passes to
\* system.spawnParticle for the particle options of emitter e: the life is handed
\* over as lifeTimeFactor = 1 / lifeTime.
unscaledSpawnRequest(e, draws) ==
    LET o == options[e].particle
        velocityAngle ==
            degToRad(Whole(randFloat(o.velocity.angleMin, o.velocity.angleMax,
                                     draws.velocityAngle)))
        velocityPower ==
            Whole(randFloat(o.velocity.powerMin, o.velocity.powerMax,
                            draws.velocityPower))
        scaleFactor == Whole(resolve(o.scale, draws.scale))
    IN [lifeTimeFactor |-> Rat(1, Whole(resolve(o.lifeTime, draws.lifeTime))),
        position |->
            <<options[e].x + Whole(randFloat(o.position.min[1], o.position.max[1],
                                    draws.positionX)),
              options[e].y + Whole(randFloat(o.position.min[2], o.position.max[2],
                                    draws.positionY))>>,
        rotation |-> degToRad(Whole(resolve(o.angle, draws.angle))),
        velocity |-> <<cos(velocityAngle) * velocityPower,
                       sin(velocityAngle) * velocityPower>>,
        angularVelocity |->
            degToRad(Whole(resolve(o.angularVelocity, draws.angularVelocity))),
        scaleOverTime |->
            [i \in 1 .. Len(o.scaleOverTime) |->
                RatMul(resolve(o.scaleOverTime[i], draws.curve), Num(scaleFactor))],
        colorOverTime |->
            [i \in 1 .. Len(o.colorOverTime) |-> resolveColor(o.colorOverTime[i], draws)],
        opacityOverTime |->
            [i \in 1 .. Len(o.opacityOverTime) |->
                resolve(o.opacityOverTime[i], draws.curve)]]

(***************************************************************************)
(* UIUniformInTimeEmitter (src/src/Emitters/UIUniformInTimeEmitter.ts).    *)
(***************************************************************************)
\* this.currentTime after lines 134-145 of render: advanced by deltaTime, then
\* reset at the end of an infinite cycle or clamped to the duration.
cycleTime(e, deltaTime) ==
    LET time == currentTime[e] + deltaTime
    IN IF options[e].infinite
       THEN (IF time >= options[e].playbackDuration THEN 0 ELSE time)
       ELSE Min(time, options[e].playbackDuration)

\* this.lastTimeParticleAmount after those lines (resetSpawn clears it).
cycleEmitted(e, deltaTime) ==
    IF /\ options[e].infinite
       /\ currentTime[e] + deltaTime >= options[e].playbackDuration
    THEN 0
    ELSE lastTimeParticleAmount[e]

\* Math.floor((this.currentTime / duration) * totalAmount)
expectedCount(e, deltaTime) ==
    (cycleTime(e, deltaTime) * options[e].spawnAmount) \div options[e].playbackDuration

countToSpawn(e, deltaTime) == expectedCount(e, deltaTime) - cycleEmitted(e, deltaTime)

\* duration / Math.max(1, totalAmount - 1)
step(e) == options[e].playbackDuration \div Max(1, options[e].spawnAmount - 1)

\* The target index this.lastTimeParticleAmount + i of the i-th call of spawn in
\* the loop of render.
targetIndex(e, deltaTime, i) == cycleEmitted(e, deltaTime) + i

\* history: the last target index used so far in the cycle the render runs in, 0
\* if none (a cycle restart of an infinite emitter begins a new cycle).
cycleTarget(e, deltaTime) ==
    IF /\ options[e].infinite
       /\ currentTime[e] + deltaTime >= options[e].playbackDuration
    THEN 0
    ELSE lastTarget[e]

\* A loop that computes the target time once, for its first call, and passes the
\* same elapsedTime to every call.
spawnArgumentsOneTarget(e, deltaTime) ==
    [i \in 1 .. countToSpawn(e, deltaTime) |->
        cycleTime(e, deltaTime) - (cycleEmitted(e, deltaTime) + 1) * step(e)]

\* The elapsedTime arguments of the calls of spawn in the loop of render, in order.
spawnArguments(e, deltaTime) ==
    [i \in 1 .. countToSpawn(e, deltaTime) |->
        cycleTime(e, deltaTime) - (cycleEmitted(e, deltaTime) + i) * step(e)]

\* The calls of spawn from the i-th on: the particle array they leave, the number
\* of calls made, and whether one raised, which ends render there.
RECURSIVE spawnLoop(_, _, _, _, _)
spawnLoop(e, list, arguments, draws, i) ==
    IF i > Len(arguments)
    THEN [particles |-> list, invoked |-> i - 1, threw |-> FALSE]
    ELSE IF spawnParticleThrows(list, spawnRequest(e, draws[i]), arguments[i])
    THEN [particles |-> list, invoked |-> i, threw |-> TRUE]
    ELSE spawnLoop(e, spawnParticle(list, spawnRequest(e, draws[i]), arguments[i]),
                   arguments, draws, i + 1)

\* The state after resetSpawn().
\* A reset that clears the particle count and leaves the time where it is.
resetSpawnCountOnly(e) ==
    /\ lastTimeParticleAmount' = [lastTimeParticleAmount EXCEPT ![e] = 0]
    /\ UNCHANGED currentTime

resetSpawn(e) ==
    /\ currentTime' = [currentTime EXCEPT ![e] = 0]
    /\ lastTimeParticleAmount' = [lastTimeParticleAmount EXCEPT ![e] = 0]

\* A play() that restarts whatever the state (what the guard of play rules out).
playRestarts(e) == TRUE

playStarts(e) == ~isPlayingInternal[e]

play(e) ==
    IF playStarts(e)
    THEN /\ isPlayingInternal' = [isPlayingInternal EXCEPT ![e] = TRUE]
         /\ resetSpawn(e)
    ELSE UNCHANGED <<isPlayingInternal, currentTime, lastTimeParticleAmount>>

stopStops(e) == isPlayingInternal[e]

stop(e) ==
    IF stopStops(e)
    THEN /\ isPlayingInternal' = [isPlayingInternal EXCEPT ![e] = FALSE]
         /\ resetSpawn(e)
    ELSE UNCHANGED <<isPlayingInternal, currentTime, lastTimeParticleAmount>>

\* A render without its early return (what the guard of render rules out).
renderRunsStopped(e) == TRUE

\* render leaves at once unless the emitter is playing.
renderRuns(e) == isPlayingInternal[e]

\* The end of a finite cycle: !this.infiniteInternal && this.currentTime >= duration
\* render with the test of line 164 made for every emitter, infinite or not.
cycleEndsAnyEmitter(e, deltaTime) ==
    currentTime[e] + deltaTime >= options[e].playbackDuration

cycleEnds(e, deltaTime) ==
    /\ ~options[e].infinite
    /\ cycleTime(e, deltaTime) >= options[e].playbackDuration

\* history: the operation, its emitter (0 for the system), its deltaTime (system
\* render, and emitter render where frames are scheduled), whether it raised, what it returned to its caller, whether it
\* found the particle array full (spawnParticle only), and the number of spawn
\* requests made since the system render before it (system render only).
Operation(op, e, deltaTime, threw) ==
    [op |-> op, emitter |-> e, deltaTime |-> deltaTime, threw |-> threw,
     returned |-> IF threw THEN "TypeError" ELSE "undefined",
     full |-> FALSE, requests |-> 0]

Units == 0 .. (RandomDen - 1)
DrawSlots == {"lifeTime", "positionX", "positionY", "angle", "velocityAngle",
              "velocityPower", "angularVelocity", "scale", "curve", "red", "green",
              "blue"}
Draws == {[slot \in DrawSlots |-> u] : u \in Units}
         \cup {[slot \in DrawSlots |->
                   IF slot \in {"lifeTime", "positionX", "red", "velocityPower"}
                   THEN 0 ELSE RandomDen - 1]}
DeltaTimes == 0 .. MaxDeltaTime

\* The elapsedTime arguments of a direct caller of spawnParticle: 0 (the default),
\* times within a particle's life and a time past the shortest life.
ElapsedTimes == 0 .. (MaxDeltaTime + 1)

\* history: where recording is set, a play() that starts an emitter which plays
\* by default (so it has played and was stopped since) marks it as replayed.
PlayRecording(e, recording) ==
    /\ play(e)
    /\ replayed' = IF recording /\ ~isPlayingInternal[e] /\ options[e].playsByDefault
                   THEN [replayed EXCEPT ![e] = TRUE]
                   ELSE replayed
    /\ elapsed' = [elapsed EXCEPT ![e] = IF isPlayingInternal[e] THEN @ ELSE 0]
    /\ spawnCount' = [spawnCount EXCEPT ![e] = IF isPlayingInternal[e] THEN @ ELSE 0]
    /\ lastTarget' = [lastTarget EXCEPT ![e] = IF isPlayingInternal[e] THEN @ ELSE 0]
    /\ calls' = <<>>
    /\ lastOp' = Operation("play", e, 0, FALSE)
    /\ UNCHANGED <<emitters, options, systemVars, requests, evicted>>

Play(e) == PlayRecording(e, FALSE)

Stop(e) ==
    /\ stop(e)
    /\ calls' = <<>>
    /\ lastOp' = Operation("stop", e, 0, FALSE)
    /\ UNCHANGED <<emitters, options, systemVars, elapsed, spawnCount, lastTarget,
                   evicted, replayed, requests>>

\* render(renderer, deltaTime) of emitter e; recorded is the deltaTime the history
\* keeps of the call.
EmitterRenderRecording(e, deltaTime, recorded) ==
    IF ~renderRuns(e)
    THEN /\ calls' = <<>>
         /\ lastOp' = Operation("emitterRender", e, recorded, FALSE)
         /\ UNCHANGED <<emitterVars, systemVars, elapsed, spawnCount, lastTarget,
                        evicted, replayed, requests>>
    ELSE \E arguments \in {spawnArguments(e, deltaTime)} :
         \E draws \in [1 .. Len(arguments) -> Draws] :
         \E loop \in {spawnLoop(e, particles, arguments, draws, 1)} :
            /\ elapsed[e] + deltaTime <= MaxCycles * options[e].playbackDuration
            /\ spawnCount[e] + Len(arguments) <= (MaxCycles + 1) * MaxSpawnAmount
            /\ particles' = loop.particles
            /\ IF loop.threw
               THEN /\ currentTime' =
                         [currentTime EXCEPT ![e] = cycleTime(e, deltaTime)]
                    /\ lastTimeParticleAmount' =
                         [lastTimeParticleAmount EXCEPT
                             ![e] = cycleEmitted(e, deltaTime)]
                    /\ UNCHANGED isPlayingInternal
               ELSE IF cycleEnds(e, deltaTime)
               THEN stop(e)
               ELSE /\ currentTime' =
                         [currentTime EXCEPT ![e] = cycleTime(e, deltaTime)]
                    /\ lastTimeParticleAmount' =
                         [lastTimeParticleAmount EXCEPT
                             ![e] = expectedCount(e, deltaTime)]
                    /\ UNCHANGED isPlayingInternal
            /\ elapsed' = [elapsed EXCEPT ![e] = @ + deltaTime]
            /\ spawnCount' = [spawnCount EXCEPT ![e] = @ + loop.invoked]
            /\ lastTarget' = [lastTarget EXCEPT ![e] =
                                  IF loop.invoked = 0 THEN cycleTarget(e, deltaTime)
                                  ELSE targetIndex(e, deltaTime, loop.invoked)]
            /\ calls' = SubSeq(arguments, 1, loop.invoked)
            /\ requests' = Min(requests + loop.invoked, MaxRequests)
            /\ lastOp' = Operation("emitterRender", e, recorded, loop.threw)
            /\ UNCHANGED <<emitters, options, capacity, gravity, instanceCount,
                           instanceTransform, instanceScale, instanceColor, evicted,
                           replayed>>

EmitterRender(e, deltaTime) == EmitterRenderRecording(e, deltaTime, 0)

(***************************************************************************)
(* The particle system's operations.                                       *)
(***************************************************************************)
White == <<Num(1), Num(1), Num(1)>>
Red == <<Num(1), Num(0), Num(0)>>

\* The UISystemSpawnOptions a direct caller of spawnParticle passes.
DirectOptions ==
    {[lifeTime |-> 2, position |-> <<0, 0>>, rotation |-> 0, velocity |-> <<0, 0>>,
      angularVelocity |-> 0, scaleOverTime |-> <<Num(1)>>,
      colorOverTime |-> <<White>>, opacityOverTime |-> <<Num(1)>>],
     [lifeTime |-> 3, position |-> <<1, 0>>, rotation |-> 90, velocity |-> <<1, 0>>,
      angularVelocity |-> 90, scaleOverTime |-> <<Num(1), Num(2), Num(1)>>,
      colorOverTime |-> <<Red, White>>,
      opacityOverTime |-> <<Num(0), Num(1), Num(0)>>]}

SpawnParticle(spawnOptions, elapsedTime) ==
    /\ requests < MaxRequests
    /\ particles' = spawnParticle(particles, spawnOptions, elapsedTime)
    /\ requests' = requests + 1
    /\ calls' = <<>>
    /\ lastOp' = [Operation("spawnParticle", 0, 0,
                            spawnParticleThrows(particles, spawnOptions, elapsedTime))
                  EXCEPT !.returned =
                             spawnParticleReturn(particles, spawnOptions, elapsedTime),
                         !.full = (Len(particles) >= capacity)]
    /\ UNCHANGED <<emitterVars, capacity, gravity, instanceCount, instanceTransform,
                   instanceScale, instanceColor, elapsed, spawnCount, lastTarget,
                   evicted, replayed>>

\* render(renderer, deltaTime): a TypeError out of updateParticle ends it before
\* removeParticles and updateInstanceAttributes, which then publish nothing.
\* history: where recording is set, evicted becomes the number of particles
\* removeParticles took out of an array that held capacity particles (0 for an
\* array that was not full).
SystemRenderRecording(deltaTime, recording) ==
    \E loop \in {renderLoop(particles, <<>>, 1, deltaTime)} :
    \E kept \in {removeParticles(loop.particles, loop.removedParticles)} :
    \E published \in {IF loop.threw THEN updateInstanceAttributes(<<>>)
                       ELSE updateInstanceAttributes(kept)} :
       /\ IF loop.threw
          THEN /\ particles' = loop.particles
               /\ UNCHANGED <<instanceCount, instanceTransform, instanceScale,
                              instanceColor>>
          ELSE /\ particles' = kept
               /\ instanceCount' = published.instanceCount
               /\ instanceTransform' = published.instanceTransform
               /\ instanceScale' = published.instanceScale
               /\ instanceColor' = published.instanceColor
       /\ requests' = 0
       /\ calls' = <<>>
       /\ lastOp' = [Operation("systemRender", 0, deltaTime, loop.threw)
                     EXCEPT !.requests = requests]
       /\ evicted' = IF ~recording THEN evicted
                     ELSE IF loop.threw \/ Len(particles) < capacity THEN 0
                     ELSE Len(particles) - Len(kept)
       /\ UNCHANGED <<emitterVars, capacity, gravity, elapsed, spawnCount, lastTarget,
                      replayed>>

SystemRender(deltaTime) == SystemRenderRecording(deltaTime, FALSE)

(***************************************************************************)
(* Construction.                                                           *)
(***************************************************************************)
Durations == {TimeBase, 2 * TimeBase}

\* Particle options of a rectangle emitter: the defaults of the constructor, and
\* options with ranges and curves of several control points.
DefaultParticleOptions ==
    [lifeTime |-> Fixed(20),
     position |-> [min |-> <<0, 0>>, max |-> <<0, 0>>],
     scale |-> Fixed(1),
     angle |-> Fixed(0),
     velocity |-> [powerMin |-> 0, powerMax |-> 0, angleMin |-> 0, angleMax |-> 0],
     angularVelocity |-> Fixed(0),
     scaleOverTime |-> <<Fixed(1)>>,
     colorOverTime |-> <<[kind |-> "number", hex |-> 16777215]>>,
     opacityOverTime |-> <<Fixed(1)>>]

FadingParticleOptions ==
    [lifeTime |-> Range(2, 2 + RandomDen),
     position |-> [min |-> <<0, 0>>, max |-> <<RandomDen, 0>>],
     scale |-> Fixed(1),
     angle |-> Fixed(90),
     velocity |-> [powerMin |-> 1, powerMax |-> 1, angleMin |-> 0, angleMax |-> 0],
     angularVelocity |-> Fixed(0),
     scaleOverTime |-> <<Fixed(1), Fixed(2)>>,
     colorOverTime |-> <<[kind |-> "number", hex |-> 16711680],
                         [kind |-> "number", hex |-> 255]>>,
     opacityOverTime |-> <<Fixed(1), Fixed(0)>>]

\* The defaults with a short life and a unit velocity along x, which makes the
\* published position of a particle tell the time it has been simulated for.
BriefParticleOptions ==
    [DefaultParticleOptions EXCEPT
        !.lifeTime = Fixed(2),
        !.velocity = [powerMin |-> 1, powerMax |-> 1, angleMin |-> 0, angleMax |-> 0]]

ParticleOptions == {DefaultParticleOptions, FadingParticleOptions}

\* Short-lived particles with a two-point colour curve.
BriefFadingParticleOptions ==
    [BriefParticleOptions EXCEPT
        !.colorOverTime = FadingParticleOptions.colorOverTime]

\* The options of a rectangle emitter at the origin with unit emitterScale.
EmitterOptionsOf(amounts, durations, defaults, particleOptions) ==
    {[infinite |-> infinite, spawnAmount |-> spawnAmount,
      playbackDuration |-> playbackDuration, playsByDefault |-> playsByDefault,
      x |-> 0, y |-> 0, emitterScale |-> 1, particle |-> particle] :
        infinite \in BOOLEAN, spawnAmount \in amounts,
        playbackDuration \in durations, playsByDefault \in defaults,
        particle \in particleOptions}

EmitterOptions ==
    EmitterOptionsOf(0 .. MaxSpawnAmount, Durations, BOOLEAN, ParticleOptions)

\* The state a UIParticleSystem is constructed in.  The three instance attributes
\* are zero-filled Float32Arrays of capacity records; instanceCount starts at the
\* attribute count (the whole buffer counts as active until the first render).
Gravities == {<<0, 0>>, <<0, -1>>}

constructed(count, force) ==
    [capacity |-> count,
     gravity |-> force,
     particles |-> <<>>,
     instanceCount |-> count,
     instanceTransform |-> [i \in 0 .. (count - 1) |-> <<0, 0, 0, 0>>],
     instanceScale |-> [i \in 0 .. (count - 1) |-> <<Num(0), Num(0)>>],
     instanceColor |->
         [i \in 0 .. (count - 1) |-> <<Num(0), Num(0), Num(0), Num(0)>>]]

SystemConstructed(count, force) ==
    /\ capacity = constructed(count, force).capacity
    /\ gravity = constructed(count, force).gravity
    /\ particles = constructed(count, force).particles
    /\ instanceCount = constructed(count, force).instanceCount
    /\ instanceTransform = constructed(count, force).instanceTransform
    /\ instanceScale = constructed(count, force).instanceScale
    /\ instanceColor = constructed(count, force).instanceColor

\* A construction that leaves every emitter stopped, whatever playsByDefault is.
EmittersConstructedStopped(ids, configurations) ==
    /\ emitters = ids
    /\ options \in [ids -> configurations]
    /\ isPlayingInternal = [e \in ids |-> FALSE]
    /\ currentTime = [e \in ids |-> 0]
    /\ lastTimeParticleAmount = [e \in ids |-> 0]

\* The state the emitters ids are constructed in, each with options of the set
\* configurations: the constructor calls play() when playsByDefault is set.
EmittersConstructed(ids, configurations) ==
    /\ emitters = ids
    /\ options \in [ids -> configurations]
    /\ isPlayingInternal = [e \in ids |-> options[e].playsByDefault]
    /\ currentTime = [e \in ids |-> 0]
    /\ lastTimeParticleAmount = [e \in ids |-> 0]

HistoryStarts ==
    /\ elapsed = [e \in emitters |-> 0]
    /\ spawnCount = [e \in emitters |-> 0]
    /\ lastTarget = [e \in emitters |-> 0]
    /\ calls = <<>>
    /\ requests = 0
    /\ replayed = [e \in emitters |-> FALSE]
    /\ evicted = 0
    /\ lastOp = Operation("construct", 0, 0, FALSE)

(***************************************************************************)
(* Specifications.                                                         *)
(*   SpecEmitter  one rectangle emitter of any of the options, driving a   *)
(*                particle system of the smallest capacity that is not     *)
(*                rendered (its particles never leave)                     *)
(*   SpecSystem   a particle system of each capacity with direct           *)
(*                spawnParticle callers                                    *)
(*   Spec         one emitter of short-lived particles and the particle    *)
(*                system of the largest capacity, both rendered            *)
(***************************************************************************)
InitEmitter ==
    /\ EmittersConstructed({1}, EmitterOptions)
    /\ SystemConstructed(MinCapacity, <<0, -1>>)
    /\ HistoryStarts

NextEmitter ==
    \/ \E e \in emitters : Play(e)
    \/ \E e \in emitters : Stop(e)
    \/ \E e \in emitters, deltaTime \in DeltaTimes : EmitterRender(e, deltaTime)

SpecEmitter == InitEmitter /\ [][NextEmitter]_vars

InitSystem ==
    /\ EmittersConstructed({}, EmitterOptions)
    /\ \E count \in Capacities, force \in Gravities :
           SystemConstructed(count, force)
    /\ HistoryStarts

NextSystem ==
    \/ \E spawnOptions \in DirectOptions, elapsedTime \in DeltaTimes :
           SpawnParticle(spawnOptions, elapsedTime)
    \/ \E deltaTime \in DeltaTimes : SystemRender(deltaTime)

SpecSystem == InitSystem /\ [][NextSystem]_vars

\* A particle system whose direct caller pre-simulates its particles by any of
\* ElapsedTimes, a time past the shortest life included.
InitSpawn ==
    /\ EmittersConstructed({}, EmitterOptions)
    /\ SystemConstructed(MinCapacity, <<0, -1>>)
    /\ HistoryStarts

NextSpawn ==
    \/ \E spawnOptions \in DirectOptions, elapsedTime \in ElapsedTimes :
           SpawnParticle(spawnOptions, elapsedTime)
    \/ \E deltaTime \in DeltaTimes : SystemRender(deltaTime)

SpecSpawn == InitSpawn /\ [][NextSpawn]_vars

FrameOptions ==
    EmitterOptionsOf({MaxSpawnAmount}, {TimeBase}, {TRUE}, {BriefParticleOptions})

Init ==
    /\ EmittersConstructed({1}, FrameOptions)
    /\ SystemConstructed(MaxCapacity, <<0, 0>>)
    /\ HistoryStarts

Next ==
    \/ NextEmitter
    \/ \E deltaTime \in DeltaTimes : SystemRender(deltaTime)

Spec == Init /\ [][Next]_vars

\* Two emitters that spawn into one particle system, emitter e at y = e - 1.
\* A frame of deltaTime renders emitter 1, then emitter 2, then the particle
\* system, each with that deltaTime.
FrameEmitters == {1, 2}

FrameEmitterOptions ==
    {[configuration EXCEPT !.y = y] :
        configuration \in EmitterOptionsOf({MaxSpawnAmount - 1, MaxSpawnAmount},
                                           {TimeBase}, {TRUE},
                                           {BriefParticleOptions,
                                            BriefFadingParticleOptions}),
        y \in {e - 1 : e \in FrameEmitters}}

InitFrame ==
    /\ EmittersConstructed(FrameEmitters, FrameEmitterOptions)
    /\ \A e \in emitters : options[e].y = e - 1
    /\ SystemConstructed(MaxCapacity, <<0, 0>>)
    /\ HistoryStarts

EmitterTick(e, deltaTime) ==
    /\ IF e = 1
       THEN lastOp.op \in {"construct", "systemRender"}
       ELSE /\ lastOp.op = "emitterRender"
            /\ lastOp.emitter = e - 1
            /\ lastOp.deltaTime = deltaTime
    /\ EmitterRenderRecording(e, deltaTime, deltaTime)

SystemTick(deltaTime) ==
    /\ lastOp.op = "emitterRender"
    /\ lastOp.emitter = Cardinality(emitters)
    /\ lastOp.deltaTime = deltaTime
    /\ SystemRender(deltaTime)

NextFrame ==
    \/ \E e \in emitters, deltaTime \in DeltaTimes : EmitterTick(e, deltaTime)
    \/ \E deltaTime \in DeltaTimes : SystemTick(deltaTime)

SpecFrame == InitFrame /\ [][NextFrame]_vars

\* One emitter whose particleOptions give an empty array for one of the three
\* curves (the constructor stores whatever array it is given), and the particle
\* system it spawns into, both rendered.
EmptyCurveParticleOptions ==
    {[BriefParticleOptions EXCEPT !.scaleOverTime = <<>>],
     [BriefParticleOptions EXCEPT !.opacityOverTime = <<>>],
     [BriefParticleOptions EXCEPT !.colorOverTime = <<>>]}

InitCurve ==
    /\ EmittersConstructed({1}, EmitterOptionsOf({MaxSpawnAmount}, {TimeBase}, {TRUE},
                                                 EmptyCurveParticleOptions))
    /\ SystemConstructed(MinCapacity, <<0, 0>>)
    /\ HistoryStarts

SpecCurve == InitCurve /\ [][Next]_vars

\* The construction of a particle system.  texture.image.width and
\* texture.image.height are <<>> (undefined, the property is missing) or <<n>>.
Missing == <<>>
TextureSizes == {Missing, <<0>>, <<16>>}

\* A test of the dimensions that looks at the width only.
invalidWidth(width, height) == width = Missing \/ width = <<0>>

\* !width || !height
invalidDimensions(width, height) ==
    \/ width = Missing \/ width = <<0>>
    \/ height = Missing \/ height = <<0>>

\* No particle system: no particle array, no instance attributes.
NoSystem ==
    /\ capacity = 0
    /\ gravity = <<0, 0>>
    /\ particles = <<>>
    /\ instanceCount = 0
    /\ instanceTransform = <<>>
    /\ instanceScale = <<>>
    /\ instanceColor = <<>>

\* new UIParticleSystem(layer, texture, {capacity: count, gravity: force}): the
\* throw of the constructor leaves no object behind.
Construct(width, height, count, force) ==
    /\ NoSystem
    /\ IF invalidDimensions(width, height)
       THEN /\ lastOp' = [Operation("construct", 0, 0, TRUE)
                          EXCEPT !.returned = "Error: Invalid texture dimensions"]
            /\ UNCHANGED systemVars
       ELSE /\ capacity' = constructed(count, force).capacity
            /\ gravity' = constructed(count, force).gravity
            /\ particles' = constructed(count, force).particles
            /\ instanceCount' = constructed(count, force).instanceCount
            /\ instanceTransform' = constructed(count, force).instanceTransform
            /\ instanceScale' = constructed(count, force).instanceScale
            /\ instanceColor' = constructed(count, force).instanceColor
            /\ lastOp' = Operation("construct", 0, 0, FALSE)
    /\ requests' = 0
    /\ calls' = <<>>
    /\ UNCHANGED <<emitterVars, elapsed, spawnCount, lastTarget, evicted, replayed>>

InitConstruct ==
    /\ EmittersConstructed({}, EmitterOptions)
    /\ NoSystem
    /\ elapsed = <<>> /\ spawnCount = <<>> /\ lastTarget = <<>>
    /\ calls = <<>>
    /\ requests = 0
    /\ replayed = <<>>
    /\ evicted = 0
    /\ lastOp = Operation("none", 0, 0, FALSE)

NextConstruct ==
    \/ \E width \in TextureSizes, height \in TextureSizes :
           Construct(width, height, MinCapacity, <<0, -1>>)
    \/ ~NoSystem /\ NextSpawn

SpecConstruct == InitConstruct /\ [][NextConstruct]_vars

(***************************************************************************)
(*   SpecStore    a particle system with room for a particle between two   *)
(*                others, whose callers spawn with the default elapsedTime *)
(*                of 0; its renders record how many particles they removed *)
(*                from a full array                                        *)
(***************************************************************************)
StoreCapacity == MaxCapacity + 1

InitStore ==
    /\ EmittersConstructed({}, EmitterOptions)
    /\ SystemConstructed(StoreCapacity, <<0, 0>>)
    /\ HistoryStarts

NextStore ==
    \/ \E spawnOptions \in DirectOptions : SpawnParticle(spawnOptions, 0)
    \/ \E deltaTime \in DeltaTimes : SystemRenderRecording(deltaTime, TRUE)

SpecStore == InitStore /\ [][NextStore]_vars

(***************************************************************************)
(*   SpecReplay   one finite rectangle emitter that plays by default,      *)
(*                driving a particle system of the largest capacity that   *)
(*                is not rendered; its play() calls record a restart       *)
(***************************************************************************)
ReplayOptions ==
    {o \in EmitterOptions : o.playsByDefault /\ ~o.infinite}

InitReplay ==
    /\ EmittersConstructed({1}, ReplayOptions)
    /\ SystemConstructed(MaxCapacity, <<0, -1>>)
    /\ HistoryStarts

NextReplay ==
    \/ \E e \in emitters : PlayRecording(e, TRUE)
    \/ \E e \in emitters : Stop(e)
    \/ \E e \in emitters, deltaTime \in DeltaTimes : EmitterRender(e, deltaTime)

SpecReplay == InitReplay /\ [][NextReplay]_vars

(***************************************************************************)
(*   SpecLive     one finite emitter of short-lived particles and a        *)
(*                particle system of the smallest capacity, where the      *)
(*                frame loop keeps rendering the particle system with a    *)
(*                positive deltaTime.  render can always be called, and    *)
(*                only a render of the particle system leaves a            *)
(*                "systemRender" record in lastOp, so weak fairness of the *)
(*                steps that leave such a record with a positive deltaTime *)
(*                says that these renders never cease                      *)
(***************************************************************************)
LiveOptions == {o \in FrameOptions : ~o.infinite}

InitLive ==
    /\ EmittersConstructed({1}, LiveOptions)
    /\ SystemConstructed(MinCapacity, <<0, 0>>)
    /\ HistoryStarts

\* The records a render of the particle system that returns normally leaves in
\* lastOp when its deltaTime is positive.
PositiveRenders ==
    {[Operation("systemRender", 0, deltaTime, FALSE) EXCEPT !.requests = count] :
        deltaTime \in DeltaTimes \ {0}, count \in 0 .. MaxRequests}

PositiveRender == lastOp' \in PositiveRenders

NextLive ==
    \/ \E e \in emitters : Play(e)
    \/ \E e \in emitters : Stop(e)
    \/ \E e \in emitters, deltaTime \in DeltaTimes : EmitterRender(e, deltaTime)
    \/ \E deltaTime \in DeltaTimes : SystemRenderRecording(deltaTime, TRUE)

SpecLive == InitLive /\ [][NextLive]_vars /\ WF_lastOp(PositiveRender)

(***************************************************************************)
(*   SpecTicks    one finite emitter of short-lived particles that plays   *)
(*                by default and the particle system of the largest        *)
(*                capacity, each rendered in any order; nobody calls       *)
(*                play() or stop()                                         *)
(***************************************************************************)
InitTicks ==
    /\ EmittersConstructed({1}, LiveOptions)
    /\ SystemConstructed(MaxCapacity, <<0, 0>>)
    /\ HistoryStarts

NextTicks ==
    \/ \E e \in emitters, deltaTime \in DeltaTimes : EmitterRender(e, deltaTime)
    \/ \E deltaTime \in DeltaTimes : SystemRender(deltaTime)

SpecTicks == InitTicks /\ [][NextTicks]_vars

(***************************************************************************)
(* The draft of the scheduler (src/unnamed/part_001).  Its play(), stop()  *)
(* and resetSpawn() are those of UIUniformInTimeEmitter.ts; its render     *)
(* sets lastTimeParticleAmount before the loop and calls spawn() without   *)
(* an elapsedTime.  spawn() is abstract there; the draft operators give    *)
(* the emitter state the call leaves and the number of calls of spawn()    *)
(* it makes, for a draft emitter in the state of emitter e.  A spawn()     *)
(* that hands its particle to spawnParticle with the default elapsedTime   *)
(* of 0 runs no pre-simulation (part_005 lines 273-279), evaluates no      *)
(* curve and returns normally, so every call of the loop is made.          *)
(***************************************************************************)
draftState(e) ==
    [isPlayingInternal |-> isPlayingInternal[e],
     currentTime |-> currentTime[e],
     lastTimeParticleAmount |-> lastTimeParticleAmount[e],
     invoked |-> 0]

draftResetSpawn(state) ==
    [state EXCEPT !.currentTime = 0, !.lastTimeParticleAmount = 0]

draftPlay(e) ==
    IF ~isPlayingInternal[e]
    THEN draftResetSpawn([draftState(e) EXCEPT !.isPlayingInternal = TRUE])
    ELSE draftState(e)

draftStopped(state) ==
    IF state.isPlayingInternal
    THEN draftResetSpawn([state EXCEPT !.isPlayingInternal = FALSE])
    ELSE state

draftStop(e) == draftStopped(draftState(e))

draftRender(e, deltaTime) ==
    IF ~isPlayingInternal[e]
    THEN draftState(e)
    ELSE LET duration == options[e].playbackDuration
             totalAmount == options[e].spawnAmount
             advanced == [draftState(e) EXCEPT !.currentTime = @ + deltaTime]
             cycled == IF options[e].infinite
                       THEN (IF advanced.currentTime >= duration
                             THEN draftResetSpawn(advanced)
                             ELSE advanced)
                       ELSE [advanced EXCEPT !.currentTime = Min(@, duration)]
             expected == (cycled.currentTime * totalAmount) \div duration
             count == expected - cycled.lastTimeParticleAmount
             spawned == [cycled EXCEPT !.lastTimeParticleAmount = expected,
                                       !.invoked = Max(0, count)]
         IN IF ~options[e].infinite /\ spawned.currentTime >= duration
            THEN draftStopped(spawned)
            ELSE spawned

(***************************************************************************)
(*   SpecDraft    the emitter of SpecEmitter, whose history keeps the      *)
(*                deltaTime of every render, so that the draft's render    *)
(*                can be run from the state the render started in          *)
(***************************************************************************)
NextDraft ==
    \/ \E e \in emitters : Play(e)
    \/ \E e \in emitters : Stop(e)
    \/ \E e \in emitters, deltaTime \in DeltaTimes :
           EmitterRenderRecording(e, deltaTime, deltaTime)

SpecDraft == InitEmitter /\ [][NextDraft]_vars

(***************************************************************************)
(*   SpecScale    one finite rectangle emitter of two particles a cycle,   *)
(*                anchored off the origin, with particle options of ranges *)
(*                and curves, whose owner sets emitterScale between        *)
(*                renders                                                  *)
(***************************************************************************)
\* The values the owner assigns to emitterScale.
EmitterScales == 0 .. MaxEmitterScale

\* set emitterScale(value)
SetEmitterScale(e, value) ==
    /\ options' = [options EXCEPT ![e].emitterScale = value]
    /\ calls' = <<>>
    /\ lastOp' = Operation("setEmitterScale", e, 0, FALSE)
    /\ UNCHANGED <<emitters, isPlayingInternal, currentTime, lastTimeParticleAmount,
                   systemVars, elapsed, spawnCount, lastTarget, evicted, replayed,
                   requests>>

ScaleOptions ==
    {[configuration EXCEPT !.x = 1] :
        configuration \in {o \in EmitterOptionsOf({2}, {TimeBase}, {TRUE},
                                                  {FadingParticleOptions}) :
                              ~o.infinite}}

InitScale ==
    /\ EmittersConstructed({1}, ScaleOptions)
    /\ SystemConstructed(MinCapacity, <<0, 0>>)
    /\ HistoryStarts

NextScale ==
    \/ \E e \in emitters, value \in EmitterScales : SetEmitterScale(e, value)
    \/ \E e \in emitters, deltaTime \in DeltaTimes : EmitterRender(e, deltaTime)

SpecScale == InitScale /\ [][NextScale]_vars

(***************************************************************************)
(* Properties of the emitter (UIUniformInTimeEmitter), under SpecEmitter.  *)
(***************************************************************************)
\* C1: a finite emitter started with play() and ticked with any sequence of
\* dt >= 0 has, once the cumulative time reaches playbackDuration, invoked spawn
\* exactly spawnAmount times, and is stopped after the tick that reached it.
C1_FiniteCycleSpawnsAllAndStops ==
    \A e \in emitters :
        (~options[e].infinite /\ elapsed[e] >= options[e].playbackDuration)
            => /\ ~isPlayingInternal[e]
               /\ spawnCount[e] = options[e].spawnAmount

\* C2: an infinite emitter ticked through k full cycles has invoked spawn
\* exactly k * spawnAmount times, and lastTimeParticleAmount is 0 at each
\* cycle boundary.
C2_InfiniteCyclesSpawnAll ==
    \A e \in emitters :
        (/\ options[e].infinite
         /\ isPlayingInternal[e]
         /\ elapsed[e] % options[e].playbackDuration = 0)
            => /\ spawnCount[e] =
                      (elapsed[e] \div options[e].playbackDuration)
                          * options[e].spawnAmount
               /\ lastTimeParticleAmount[e] = 0

\* C3: every elapsed-time offset a tick passes to spawn, currentTime minus
\* (lastTimeParticleAmount + i) * step, is at least 0.
C3_OffsetsNonNegative ==
    \A i \in 1 .. Len(calls) : calls[i] >= 0

\* C8: play() on a stopped emitter makes it playing with currentTime = 0 and
\* lastTimeParticleAmount = 0; play() on a playing emitter changes nothing.
C8_Play ==
    [][\A e \in emitters :
          (lastOp'.op = "play" /\ lastOp'.emitter = e)
              => IF isPlayingInternal[e]
                 THEN /\ isPlayingInternal'[e]
                      /\ currentTime'[e] = currentTime[e]
                      /\ lastTimeParticleAmount'[e] = lastTimeParticleAmount[e]
                 ELSE /\ isPlayingInternal'[e]
                      /\ currentTime'[e] = 0
                      /\ lastTimeParticleAmount'[e] = 0]_vars

\* play() has returned on an emitter in the middle of a cycle, which runs on.
C8_PlayedWhilePlaying ==
    /\ lastOp.op = "play"
    /\ isPlayingInternal[lastOp.emitter]
    /\ currentTime[lastOp.emitter] > 0
    /\ lastTimeParticleAmount[lastOp.emitter] > 0

\* C9: stop() leaves the emitter stopped with currentTime = 0 and
\* lastTimeParticleAmount = 0, changing nothing if it was stopped already; a
\* tick of a stopped emitter invokes spawn zero times and leaves
\* isPlayingInternal, currentTime and lastTimeParticleAmount as they were.
C9_StopAndStoppedTick ==
    [][\A e \in emitters :
          /\ (lastOp'.op = "stop" /\ lastOp'.emitter = e)
                 => /\ ~isPlayingInternal'[e]
                    /\ currentTime'[e] = 0
                    /\ lastTimeParticleAmount'[e] = 0
                    /\ ~isPlayingInternal[e] =>
                           /\ currentTime'[e] = currentTime[e]
                           /\ lastTimeParticleAmount'[e] = lastTimeParticleAmount[e]
          /\ (lastOp'.op = "emitterRender" /\ lastOp'.emitter = e
                  /\ ~isPlayingInternal[e])
                 => /\ calls' = <<>>
                    /\ spawnCount'[e] = spawnCount[e]
                    /\ particles' = particles
                    /\ ~isPlayingInternal'[e]
                    /\ currentTime'[e] = currentTime[e]
                    /\ lastTimeParticleAmount'[e] = lastTimeParticleAmount[e]]_vars

\* An emitter stopped in the middle of its cycle has been ticked.
C9_StoppedEmitterTicked ==
    /\ lastOp.op = "emitterRender"
    /\ ~isPlayingInternal[lastOp.emitter]
    /\ elapsed[lastOp.emitter] > 0
    /\ elapsed[lastOp.emitter] < options[lastOp.emitter].playbackDuration
    /\ spawnCount[lastOp.emitter] > 0


(***************************************************************************)
(* Properties of the particle system (UIParticleSystem), under SpecSystem  *)
(* and, where emitters feed it, under Spec.                                *)
(***************************************************************************)
SystemRendered == lastOp.op = "systemRender" /\ ~lastOp.threw

\* The particles of list that were admitted with age 0.
Fresh(list) == {i \in 1 .. Len(list) : list[i].preAged = 0}

\* C4 (as the code has it): a spawnParticle call made while the particle array
\* holds capacity particles is dropped silently: it returns undefined, as an
\* admitting call does, raises no error, and leaves the particle array, the
\* instance count and the instance attributes as they were.
C4_SpawnAtCapacityDropped ==
    [][(lastOp'.op = "spawnParticle" /\ Len(particles) >= capacity)
          => /\ particles' = particles
             /\ ~lastOp'.threw
             /\ lastOp'.returned = "undefined"
             /\ UNCHANGED <<capacity, instanceCount, instanceTransform,
                            instanceScale, instanceColor>>]_vars

\* C4: a spawn request made at capacity reports an admission failure (returns
\* false), raises no error and leaves the live particles unchanged.
C4_SpawnAtCapacityReportsFailure ==
    [][(lastOp'.op = "spawnParticle" /\ Len(particles) >= capacity)
          => /\ particles' = particles
             /\ ~lastOp'.threw
             /\ lastOp'.returned = "false"]_vars

\* spawnParticle has returned from a call that found the particle array full.
C4_SpawnedAtCapacity ==
    /\ lastOp.op = "spawnParticle"
    /\ lastOp.full
    /\ Len(particles) = capacity
    /\ requests > capacity

\* Three spawn requests since the last system render have left two particles of
\* age 0 in a system of capacity 2.
ThreeRequested ==
    /\ capacity = 2
    /\ requests = 3
    /\ Len(particles) = 2
    /\ \A i \in 1 .. Len(particles) :
           particles[i].preAged = 0 /\ particles[i].lived = 0

\* C5: the number of live particles never exceeds the capacity, and the capacity
\* never changes; with capacity 2 and three spawn requests, the system render
\* that follows (its deltaTime within the particles' life) publishes an instance
\* count of 2: the third request was dropped.
C5_CapacityBound ==
    /\ [](Len(particles) <= capacity)
    /\ [][capacity' = capacity]_vars
    /\ [][(/\ ThreeRequested
           /\ lastOp'.op = "systemRender"
           /\ \A i \in 1 .. Len(particles) :
                  lastOp'.deltaTime <= particles[i].lifeSpan)
             => /\ instanceCount' = 2
                /\ Len(particles') = 2]_vars

\* A system render has published two particles of a system of capacity 2 after
\* three spawn requests.
C5_ThirdRequestDropped ==
    /\ SystemRendered
    /\ capacity = 2
    /\ lastOp.requests = 3
    /\ instanceCount = 2
    /\ Len(particles) = 2
    /\ \A i \in 1 .. Len(particles) :
           particles[i].preAged = 0 /\ particles[i].lived = lastOp.deltaTime

C7_AgeFractionInUnitInterval ==
    lastOp.op = "systemRender"
        => \A i \in 1 .. Len(particles) :
               /\ particles[i].lifeTime >= 0
               /\ particles[i].lifeTime < particles[i].lifeSpan

\* C10: after every system render instanceCount is the number of live particles
\* and record i of the instance attributes holds the position, rotation, scale,
\* colour and opacity of particle i; with no live particle instanceCount is 0.
C10_InstancesMirrorParticles ==
    SystemRendered
        => /\ instanceCount = Len(particles)
           /\ \A i \in 0 .. (instanceCount - 1) :
                  /\ instanceTransform[i][1] = particles[i + 1].position[1]
                  /\ instanceTransform[i][2] = particles[i + 1].position[2]
                  /\ instanceTransform[i][4] = particles[i + 1].rotation
                  /\ instanceScale[i] = particles[i + 1].scale
                  /\ instanceColor[i][1] = particles[i + 1].color[1]
                  /\ instanceColor[i][2] = particles[i + 1].color[2]
                  /\ instanceColor[i][3] = particles[i + 1].color[3]
                  /\ instanceColor[i][4] = particles[i + 1].opacity

\* A system render has published two particles that differ.
C10_TwoPublished ==
    /\ SystemRendered
    /\ lastOp.deltaTime > 0
    /\ Len(particles) = 2
    /\ instanceTransform[0] # instanceTransform[1]
    /\ instanceColor[0] # instanceColor[1]

(***************************************************************************)
(* C11: within one emission cycle the target indices                       *)
(* lastTimeParticleAmount + i of the calls of spawn are strictly           *)
(* increasing across the renders of the cycle, so no target index is used  *)
(* for two calls: the first index of a render that calls spawn (they rise  *)
(* by one within the render) is above the last index the cycle has used.   *)
(***************************************************************************)
C11_TargetIndicesStrictlyIncrease ==
    [][\A e \in emitters :
          (lastOp'.op = "emitterRender" /\ lastOp'.emitter = e /\ Len(calls') > 0)
              => lastTarget'[e] - Len(calls') + 1 > lastTarget[e]]_vars

(***************************************************************************)
(* C12 (as the code has it): a spawnParticle call with elapsedTime e > 0   *)
(* into a particle array with free capacity runs updateParticle by e on    *)
(* the new particle before admitting it.  When e is at most the particle's *)
(* life (lifeTime <= 1, the end of life included) the particle is pushed   *)
(* with lifeTime = e / options.lifeTime, with gravity and velocity applied *)
(* over e; when e is past the life (lifeTime > 1) it is discarded and the  *)
(* particle array is unchanged.                                            *)
(***************************************************************************)
PreAgedAdmitted(spawnOptions, elapsedTime) ==
    /\ Len(particles') = Len(particles) + 1
    /\ SubSeq(particles', 1, Len(particles)) = particles
    /\ LET particle == particles'[Len(particles')]
       IN /\ particle.lifeTime = elapsedTime
          /\ particle.lifeSpan = spawnOptions.lifeTime
          /\ particle.velocity =
                 <<spawnOptions.velocity[1] + gravity[1] * elapsedTime,
                   spawnOptions.velocity[2] + gravity[2] * elapsedTime>>
          /\ particle.position =
                 <<spawnOptions.position[1] + particle.velocity[1] * elapsedTime,
                   spawnOptions.position[2] + particle.velocity[2] * elapsedTime>>

Unrendered == {i \in 1 .. Len(particles) : particles[i].lived = 0}

\* Particle i of the array before the system render is particle k after it and
\* instance k - 1 of the published buffer, simulated for preAged + deltaTime.
PublishedAt(i, k, deltaTime) ==
    /\ k \in 1 .. Len(particles')
    /\ k <= instanceCount'
    /\ particles'[k].preAged = particles[i].preAged
    /\ particles'[k].lifeTime = particles[i].preAged + deltaTime
    /\ LET velocity == <<particles[i].velocity[1] + gravity[1] * deltaTime,
                         particles[i].velocity[2] + gravity[2] * deltaTime>>
           scale == lerpArray(Rat(particles[i].preAged + deltaTime,
                                  particles[i].lifeSpan),
                              particles[i].scaleOverTime)
       IN /\ instanceTransform'[k - 1] =
                 <<particles[i].position[1] + velocity[1] * deltaTime,
                   particles[i].position[2] + velocity[2] * deltaTime,
                   zIndex,
                   particles[i].rotation + particles[i].angularVelocity * deltaTime>>
          /\ instanceScale'[k - 1] = <<scale, scale>>

C13_AdmittedPublishedSameFrame ==
    [][lastOp'.op = "systemRender"
          => \A i \in Unrendered :
                 \E k \in 1 .. Len(particles') :
                     PublishedAt(i, k, lastOp'.deltaTime)]_vars

(***************************************************************************)
(* C14: when several emitters spawn into one particle system and are       *)
(* rendered one after another in a frame, every render's spawn requests    *)
(* are admitted in request order until the particle array holds capacity   *)
(* particles, the later requests are dropped whichever emitter makes them, *)
(* and no request displaces a particle admitted earlier.                   *)
(***************************************************************************)
C14_AdmittedInRequestOrder ==
    [][lastOp'.op = "emitterRender"
          => LET admitted == Min(Len(calls'), capacity - Len(particles))
             IN /\ Len(particles') = Len(particles) + admitted
                /\ SubSeq(particles', 1, Len(particles)) = particles
                /\ \A j \in 1 .. admitted :
                       /\ particles'[Len(particles) + j].preAged = calls'[j]
                       /\ particles'[Len(particles) + j].position[2]
                              = options[lastOp'.emitter].y]_vars

(***************************************************************************)
(* C15: updateParticle(particle, deltaTime) ages the particle, then tests  *)
(* for death, then applies the physics, then samples the curves.  When it  *)
(* returns false it has changed lifeTime only: velocity, position,         *)
(* rotation, scale, opacity and color are as before.  When it returns true *)
(* velocity, position and rotation have advanced by deltaTime and scale,   *)
(* opacity and color are the curves at the lifeTime already advanced.      *)
(***************************************************************************)
C15_UpdateOrder ==
    \A i \in 1 .. Len(particles), deltaTime \in DeltaTimes :
        LET particle == particles[i]
            updated == updateParticle(particle, deltaTime)
            factor == Rat(particle.lifeTime + deltaTime, particle.lifeSpan)
        IN /\ updated.particle.lifeTime = particle.lifeTime + deltaTime
           /\ (~updated.alive /\ ~updated.threw)
                 => updated.particle = [particle EXCEPT !.lifeTime = @ + deltaTime]
           /\ updated.alive
                 => /\ updated.particle.velocity[2]
                          = particle.velocity[2] + gravity[2] * deltaTime
                    /\ updated.particle.position[2]
                          = particle.position[2]
                               + updated.particle.velocity[2] * deltaTime
                    /\ updated.particle.rotation
                          = particle.rotation + particle.angularVelocity * deltaTime
                    /\ updated.particle.scale
                          = <<lerpArray(factor, particle.scaleOverTime),
                              lerpArray(factor, particle.scaleOverTime)>>
                    /\ updated.particle.opacity
                          = lerpArray(factor, particle.opacityOverTime)
                    /\ updated.particle.color
                          = lerpColorArray(factor, particle.colorOverTime)

\* A system render has advanced a particle with three-point curves to two thirds
\* of its life, where a further update can report it dead.
C15_SampledAtNewAge ==
    /\ lastOp.op = "systemRender"
    /\ lastOp.deltaTime > 0
    /\ \E i \in 1 .. Len(particles) :
           /\ Len(particles[i].scaleOverTime) = 3
           /\ particles[i].lived > 0
           /\ particles[i].lifeTime * 3 = particles[i].lifeSpan * 2
           /\ particles[i].scale = <<Rat(5, 3), Rat(5, 3)>>
           /\ particles[i].scale # <<At(particles[i].scaleOverTime, 0),
                                     At(particles[i].scaleOverTime, 0)>>
           /\ \E deltaTime \in DeltaTimes :
                  ~updateParticle(particles[i], deltaTime).alive

(***************************************************************************)
(* C16: an empty scaleOverTime, colorOverTime or opacityOverTime is        *)
(* rejected when the emitter is constructed or at its first spawn: no      *)
(* particle made from an empty curve, with an undefined scale, opacity or  *)
(* colour, is ever in the particle array or in the published instances.    *)
(***************************************************************************)
C16_EmptyCurveRejected ==
    /\ \A i \in 1 .. Len(particles) :
           /\ Len(particles[i].scaleOverTime) > 0
           /\ Len(particles[i].opacityOverTime) > 0
           /\ Len(particles[i].colorOverTime) > 0
           /\ ~IsNaN(particles[i].scale[1])
           /\ ~IsNaN(particles[i].opacity)
           /\ particles[i].color # Undefined
    /\ lastOp.op = "systemRender"
          => \A k \in 0 .. (instanceCount - 1) :
                 /\ ~IsNaN(instanceScale[k][1])
                 /\ ~IsNaN(instanceColor[k][4])

Factors == {Rat(n, d) : n \in (-MaxFactorDen) .. (2 * MaxFactorDen),
                        d \in 1 .. MaxFactorDen}
UnitFactors == {t \in Factors : t[1] >= 0 /\ t[1] < t[2]}

\* The value the claim gives for a curve of scalars, and for one channel of a
\* curve of colours.
Evaluated(t, curve) ==
    LET exact == RatMul(Num(Len(curve) - 1), t)
        lo == exact[1] \div exact[2]
        hi == Min(lo + 1, Len(curve) - 1)
    IN Lerp(curve[lo + 1], curve[hi + 1], RatSub(exact, Num(lo)))

Channel(curve, c) == [k \in 1 .. Len(curve) |-> curve[k][c]]

C18_CurveEvaluation ==
    \A i \in 1 .. Len(particles) :
        /\ \A curve \in {particles[i].scaleOverTime, particles[i].opacityOverTime} :
               /\ Len(curve) >= 1
               /\ lerpArray(Num(0), curve) = curve[1]
               /\ Len(curve) = 1 => \A t \in Factors : lerpArray(t, curve) = curve[1]
               /\ Len(curve) >= 2
                     => \A t \in UnitFactors : lerpArray(t, curve) = Evaluated(t, curve)
               /\ curve = <<Num(1), Num(2), Num(1)>>
                     => /\ lerpArray(Rat(1, 2), curve) = Num(2)
                        /\ lerpArray(Rat(1, 4), curve) = Rat(3, 2)
        /\ LET curve == particles[i].colorOverTime
           IN /\ Len(curve) >= 1
              /\ lerpColorArray(Num(0), curve) = curve[1]
              /\ Len(curve) = 1
                    => \A t \in Factors : lerpColorArray(t, curve) = curve[1]
              /\ Len(curve) >= 2
                    => \A t \in UnitFactors :
                           lerpColorArray(t, curve)
                              = [c \in 1 .. 3 |-> Evaluated(t, Channel(curve, c))]

\* A system render has evaluated the curve [1, 2, 1] of a particle at a third of
\* its life, between its first two control points.
C18_EvaluatedBetweenPoints ==
    /\ lastOp.op = "systemRender"
    /\ \E i \in 1 .. Len(particles) :
           /\ particles[i].scaleOverTime = <<Num(1), Num(2), Num(1)>>
           /\ Len(particles[i].colorOverTime) = 2
           /\ particles[i].lifeTime * 3 = particles[i].lifeSpan
           /\ particles[i].scale[1] = Rat(5, 3)
           /\ particles[i].color = lerpColorArray(Rat(1, 3), particles[i].colorOverTime)

(***************************************************************************)
(* C19: every value the factory of the rectangle emitter resolves from a   *)
(* range when it spawns (lifeTime, the position offsets, angle, velocity   *)
(* power and angle, angular velocity, every control point of the curves,   *)
(* every colour channel) lies within [min, max] of that range, is exactly  *)
(* the value when min = max, and a fixed value is used as it is.  The      *)
(* velocity power is checked for the factory of part_002 and for that of   *)
(* part_003.                                                               *)
(***************************************************************************)
Leq(p, q) == p[1] * q[2] <= q[1] * p[2]
Within(q, min, max) == Leq(Num(min), q) /\ Leq(q, Num(max))

\* min <= d * pi / 180 <= max for d >= 0, with 3.14159 < pi < 3.14160.
RadiansWithin(d, min, max) ==
    /\ Leq(Num(min * 18000000), RatMul(d, Num(314160)))
    /\ Leq(RatMul(d, Num(314159)), Num(max * 18000000))

ControlPointWithin(value, point) ==
    IF value.kind = "number" THEN point = Num(value.min)
    ELSE Within(point, value.min, value.max)

ColorWithin(value, color) ==
    IF value.kind = "number" THEN color = setHex(value.hex)
    ELSE IF value.kind = "color"
    THEN /\ Within(color[1], value.rMin, value.rMax)
         /\ Within(color[2], value.gMin, value.gMax)
         /\ Within(color[3], value.bMin, value.bMax)
    ELSE \A c \in 1 .. 3 : Within(color[c], value.min, value.max)

C19_ResolvedWithinRange ==
    \A e \in emitters :
        (lastOp.op = "emitterRender" /\ lastOp.emitter = e /\ Len(calls) > 0)
           => \A draws \in Draws :
                  LET o == options[e].particle
                      r == resolved(e, draws)
                  IN /\ ControlPointWithin(o.lifeTime, r.lifeTime)
                     /\ Within(r.positionX, o.position.min[1], o.position.max[1])
                     /\ Within(r.positionY, o.position.min[2], o.position.max[2])
                     /\ ControlPointWithin(o.angle, r.angle)
                     /\ Within(r.velocityAngle, o.velocity.angleMin,
                               o.velocity.angleMax)
                     /\ Within(r.velocityPower, o.velocity.powerMin,
                               o.velocity.powerMax)
                     /\ RadiansWithin(draftVelocityPower(e, draws),
                                      o.velocity.powerMin, o.velocity.powerMax)
                     /\ ControlPointWithin(o.angularVelocity, r.angularVelocity)
                     /\ ControlPointWithin(o.scale, r.scale)
                     /\ \A i \in 1 .. Len(o.scaleOverTime) :
                            ControlPointWithin(o.scaleOverTime[i], r.scaleOverTime[i])
                     /\ \A i \in 1 .. Len(o.opacityOverTime) :
                            ControlPointWithin(o.opacityOverTime[i],
                                               r.opacityOverTime[i])
                     /\ \A i \in 1 .. Len(o.colorOverTime) :
                            ColorWithin(o.colorOverTime[i], r.colorOverTime[i])

(***************************************************************************)
(* C20: an emitter constructed with playsByDefault true is playing with    *)
(* currentTime = 0 and lastTimeParticleAmount = 0 right after its          *)
(* construction; one constructed with playsByDefault false is stopped, and *)
(* a stopped emitter stays stopped and calls spawn zero times, whatever    *)
(* the number of renders, until play() is called.                          *)
(***************************************************************************)
C20_PlaysByDefault ==
    /\ \A e \in emitters :
           /\ isPlayingInternal[e] = options[e].playsByDefault
           /\ currentTime[e] = 0
           /\ lastTimeParticleAmount[e] = 0
           /\ spawnCount[e] = 0
    /\ [][\A e \in emitters :
             (~isPlayingInternal[e] /\ ~(lastOp'.op = "play" /\ lastOp'.emitter = e))
                => /\ ~isPlayingInternal'[e]
                   /\ spawnCount'[e] = spawnCount[e]
                   /\ lastTarget'[e] = lastTarget[e]
                   /\ particles' = particles
                   /\ lastOp'.op = "emitterRender" => calls' = <<>>]_vars

\* An emitter constructed with playsByDefault false has been rendered and has
\* called spawn for no target index.
C20_StoppedByDefaultRendered ==
    /\ lastOp.op = "emitterRender"
    /\ ~options[lastOp.emitter].playsByDefault
    /\ options[lastOp.emitter].spawnAmount > 0
    /\ ~isPlayingInternal[lastOp.emitter]
    /\ elapsed[lastOp.emitter] = 0
    /\ lastTarget[lastOp.emitter] = 0
    /\ particles = <<>>

(***************************************************************************)
(* C21: after every render that leaves the emitter playing,                *)
(* lastTimeParticleAmount is floor(currentTime / duration * totalAmount);  *)
(* so 0 <= lastTimeParticleAmount <= spawnAmount in every state, and the   *)
(* countToSpawn of a render (the number of spawn calls its loop is to      *)
(* make) is never negative.                                                *)
(***************************************************************************)
C21_EmittedIsExpectedCount ==
    /\ [](\A e \in emitters :
             /\ lastTimeParticleAmount[e] >= 0
             /\ lastTimeParticleAmount[e] <= options[e].spawnAmount
             /\ \A deltaTime \in DeltaTimes : countToSpawn(e, deltaTime) >= 0)
    /\ [][\A e \in emitters :
             (/\ lastOp'.op = "emitterRender"
              /\ lastOp'.emitter = e
              /\ isPlayingInternal[e]
              /\ isPlayingInternal'[e])
                => lastTimeParticleAmount'[e]
                      = (currentTime'[e] * options[e].spawnAmount)
                           \div options[e].playbackDuration]_vars

(***************************************************************************)
(* C22: an infinite emitter that is playing is still playing after every   *)
(* render, whatever its deltaTime and also when the render crosses the end *)
(* of a cycle; the only step that takes it from playing to stopped is a    *)
(* call of stop() on it.                                                   *)
(***************************************************************************)
C22_InfiniteStopsOnlyByStop ==
    [][\A e \in emitters :
          (options[e].infinite /\ isPlayingInternal[e])
             => /\ (lastOp'.op = "emitterRender" => isPlayingInternal'[e])
                /\ (~isPlayingInternal'[e]
                      => lastOp'.op = "stop" /\ lastOp'.emitter = e)]_vars

\* An infinite emitter has just been rendered across the end of a cycle and is
\* playing.
C22_InfiniteRenderedAcrossCycle ==
    \E e \in emitters :
        /\ options[e].infinite
        /\ lastOp.op = "emitterRender"
        /\ lastOp.emitter = e
        /\ elapsed[e] >= options[e].playbackDuration
        /\ currentTime[e] = 0
        /\ isPlayingInternal[e]

(***************************************************************************)
(* C23: only a system render takes particles out of the array: every other *)
(* step leaves the particles it found in place, and a spawnParticle call   *)
(* on a full array changes nothing, however old the particles are.  After  *)
(* a system render that removed k >= 1 particles from a full array and     *)
(* requests spawnParticle calls with elapsedTime 0 since, the array holds  *)
(* min(capacity, capacity - k + requests) particles: the first k calls     *)
(* were admitted and the (k+1)-th was dropped.                             *)
(***************************************************************************)
C23_SlotsFreedOnlyBySystemRender ==
    /\ [](evicted > 0
            => Len(particles) = Min(capacity, capacity - evicted + requests))
    /\ [][/\ lastOp'.op # "systemRender"
             => /\ Len(particles') >= Len(particles)
                /\ SubSeq(particles', 1, Len(particles)) = particles
          /\ (lastOp'.op = "spawnParticle" /\ Len(particles) >= capacity)
             => particles' = particles
          /\ (lastOp'.op = "spawnParticle" /\ Len(particles) < capacity)
             => Len(particles') = Len(particles) + 1]_vars

\* A system render removed k particles from a full array, k spawnParticle calls
\* refilled it and the (k+1)-th call has just been dropped.
C23_DroppedAfterRefill ==
    /\ evicted > 0
    /\ requests = evicted + 1
    /\ lastOp.op = "spawnParticle"
    /\ lastOp.full
    /\ Len(particles) = capacity
    /\ \E i \in 1 .. Len(particles) : particles[i].lived = 0

(***************************************************************************)
(* C24: in a render that calls spawn m >= 2 times, the i-th call receives  *)
(* currentTime - (lastTimeParticleAmount + i) * step, with currentTime as  *)
(* advanced by the render (the duration, when the render ended the cycle   *)
(* and stop() cleared it), lastTimeParticleAmount as it was before the     *)
(* render and step = duration / max(1, totalAmount - 1); each argument is  *)
(* smaller than the one before it by exactly step, which is positive, so   *)
(* the first call of the burst has the largest elapsedTime.                *)
(***************************************************************************)
C24_BurstOffsets ==
    [][\A e \in emitters :
          (/\ lastOp'.op = "emitterRender"
           /\ lastOp'.emitter = e
           /\ Len(calls') >= 2)
             => LET time == IF isPlayingInternal'[e] THEN currentTime'[e]
                            ELSE options[e].playbackDuration
                    intervals == Max(1, options[e].spawnAmount - 1)
                IN /\ \A i \in 1 .. Len(calls') :
                         calls'[i] * intervals
                            = time * intervals
                                 - (lastTimeParticleAmount[e] + i)
                                      * options[e].playbackDuration
                   /\ \A i \in 1 .. (Len(calls') - 1) :
                         /\ calls'[i] > calls'[i + 1]
                         /\ (calls'[i] - calls'[i + 1]) * intervals
                               = options[e].playbackDuration
                   /\ \A i \in 2 .. Len(calls') : calls'[1] > calls'[i]]_vars

\* A render has just made three spawn calls and none of them raised.
C24_BurstOfThree ==
    /\ lastOp.op = "emitterRender"
    /\ ~lastOp.threw
    /\ Len(calls) = 3
    /\ calls[1] > calls[2]
    /\ calls[2] > calls[3]

(***************************************************************************)
(* C25: every curve evaluation is made with a life fraction in [0, 1]: a   *)
(* particle that spawnParticle pre-simulated, or that a system render      *)
(* advanced and kept, has 0 <= lifeTime <= 1 (its curves were sampled at   *)
(* that lifeTime), and no call raises the TypeError of an undefined        *)
(* control point.                                                          *)
(***************************************************************************)
C25_CurvesEvaluatedWithinLife ==
    /\ ~lastOp.threw
    /\ \A i \in 1 .. Len(particles) :
           (particles[i].preAged # 0 \/ particles[i].lived # 0)
              => /\ particles[i].lifeTime >= 0
                 /\ particles[i].lifeTime <= particles[i].lifeSpan

\* The particles of the array for which updateParticle(particle, deltaTime)
\* returns true (their advanced lifeTime is not above 1).
Survivors(deltaTime) ==
    {i \in 1 .. Len(particles) :
        particles[i].lifeTime + deltaTime <= particles[i].lifeSpan}

(***************************************************************************)
(* C26: a system render removes exactly the particles for which            *)
(* updateParticle returned false: the array after it holds every other     *)
(* particle once, advanced by the render, and in the order the particles   *)
(* had before it (the k-th survivor is element k), which is the order of   *)
(* the instance records.                                                   *)
(***************************************************************************)
C26_SurvivorsKeepOrder ==
    [][(lastOp'.op = "systemRender" /\ ~lastOp'.threw)
          => \E deltaTime \in {lastOp'.deltaTime} :
             \E alive \in {Survivors(deltaTime)} :
                /\ Len(particles') = Cardinality(alive)
                /\ instanceCount' = Len(particles')
                /\ \A i \in alive :
                       \E k \in {Cardinality({j \in alive : j <= i})} :
                          /\ particles'[k].lifeSpan = particles[i].lifeSpan
                          /\ particles'[k].lifeTime = particles[i].lifeTime + deltaTime
                          /\ particles'[k].lived = particles[i].lived + deltaTime
                          /\ particles'[k].preAged = particles[i].preAged
                          /\ particles'[k].colorOverTime = particles[i].colorOverTime
                          /\ instanceTransform'[k - 1][1] = particles'[k].position[1]
                          /\ instanceTransform'[k - 1][2] = particles'[k].position[2]
                          /\ instanceTransform'[k - 1][4] = particles'[k].rotation]_vars

\* A system render has removed one particle of a full array of three and kept two
\* particles that differ, the older one first.
C26_TwoDistinctSurvivors ==
    /\ SystemRendered
    /\ capacity = 3
    /\ evicted = 1
    /\ Len(particles) = 2
    /\ particles[1].lived > particles[2].lived
    /\ particles[1] # particles[2]

\* An empty particle array and one that holds capacity particles.
EmptyStore == <<>>
FullStore ==
    [i \in 1 .. capacity |->
        newParticle(CHOOSE spawnOptions \in DirectOptions : spawnOptions.lifeTime = 2, 0)]

(***************************************************************************)
(* C27: what a render does to the emitter does not depend on the store or  *)
(* on the random draws: from the same emitter state and with the same      *)
(* deltaTime, a render against an empty particle array and one against a   *)
(* full array, with any two sequences of draws, make the same number of    *)
(* spawn calls and both run to the end of render (so both leave the same   *)
(* currentTime, lastTimeParticleAmount and isPlaying).                     *)
(***************************************************************************)
C27_ScheduleIndependentOfStore ==
    \A e \in emitters, deltaTime \in DeltaTimes :
        isPlayingInternal[e]
           => \E arguments \in {spawnArguments(e, deltaTime)} :
              \A draws1, draws2 \in [1 .. Len(arguments) -> Draws] :
                 LET run1 == spawnLoop(e, EmptyStore, arguments, draws1, 1)
                     run2 == spawnLoop(e, FullStore, arguments, draws2, 1)
                 IN /\ run1.invoked = run2.invoked
                    /\ run1.threw = run2.threw

(***************************************************************************)
(* C28: in every state 0 <= currentTime <= playbackDuration for every      *)
(* emitter, and an emitter that is not playing has currentTime = 0 and     *)
(* lastTimeParticleAmount = 0: as constructed, after stop() and after the  *)
(* stop that render makes at the end of a finite cycle.                    *)
(***************************************************************************)
C28_TimeWithinCycleAndStoppedIsReset ==
    \A e \in emitters :
        /\ currentTime[e] >= 0
        /\ currentTime[e] <= options[e].playbackDuration
        /\ ~isPlayingInternal[e]
              => currentTime[e] = 0 /\ lastTimeParticleAmount[e] = 0

\* A render has just spawned the last particles of a finite cycle and stopped
\* the emitter.
C28_StoppedAtEndOfCycle ==
    \E e \in emitters :
        /\ lastOp.op = "emitterRender"
        /\ lastOp.emitter = e
        /\ Len(calls) > 0
        /\ spawnCount[e] = options[e].spawnAmount
        /\ ~isPlayingInternal[e]

(***************************************************************************)
(* C29: a finite emitter that was stopped, by stop() or by the end of its  *)
(* cycle, and started again by play() runs a fresh cycle: the play() that  *)
(* restarts it leaves currentTime = 0 and lastTimeParticleAmount = 0, and  *)
(* once the time ticked since that play() reaches playbackDuration the     *)
(* emitter has called spawn exactly spawnAmount times since it and is      *)
(* stopped.                                                                *)
(***************************************************************************)
C29_ReplayedCycleSpawnsAllAndStops ==
    \A e \in emitters :
        (replayed[e] /\ ~options[e].infinite)
           => /\ (lastOp.op = "play" /\ elapsed[e] = 0 /\ isPlayingInternal[e])
                    => currentTime[e] = 0 /\ lastTimeParticleAmount[e] = 0
              /\ elapsed[e] >= options[e].playbackDuration
                    => /\ ~isPlayingInternal[e]
                       /\ spawnCount[e] = options[e].spawnAmount

AllStopped == \A e \in emitters : ~isPlayingInternal[e]

(***************************************************************************)
(* C30: while the particle system keeps being rendered with a positive     *)
(* deltaTime, no particle outlives its lifetime: the lifeTime of a live    *)
(* particle is its pre-aging plus the deltaTime of the renders it went     *)
(* through and is never above 1, so every render with a positive deltaTime *)
(* brings each live particle nearer to its removal and such renders keep   *)
(* coming; and if from some point on every emitter is stopped, then from   *)
(* some point on the particle array is empty and instanceCount is 0.       *)
(***************************************************************************)
C30_EventuallyEmpty ==
    /\ [](\A i \in 1 .. Len(particles) :
              /\ particles[i].lifeTime = particles[i].preAged + particles[i].lived
              /\ particles[i].lifeTime <= particles[i].lifeSpan)
    /\ []<>(lastOp.op = "systemRender" /\ lastOp.deltaTime > 0)
    /\ (<>[]AllStopped => <>[](Len(particles) = 0 /\ instanceCount = 0))

\* With the emitter stopped, a render with a positive deltaTime has removed the
\* last particles of a full array and published an instance count of 0.
C30_EmptiedAfterStop ==
    /\ AllStopped
    /\ SystemRendered
    /\ lastOp.deltaTime > 0
    /\ evicted = capacity
    /\ Len(particles) = 0
    /\ instanceCount = 0

(***************************************************************************)
(* C31: the two renders do not interfere.  A render of the particle system *)
(* leaves isPlayingInternal, currentTime and lastTimeParticleAmount of     *)
(* every emitter as they were.  A render of an emitter leaves every        *)
(* particle already in the array as and where it was (it can only append), *)
(* and leaves instanceCount, the instance attributes, the capacity and the *)
(* gravity as they were.                                                   *)
(***************************************************************************)
C31_RendersDoNotInterfere ==
    [][/\ lastOp'.op = "systemRender"
             => UNCHANGED <<isPlayingInternal, currentTime, lastTimeParticleAmount>>
       /\ lastOp'.op = "emitterRender"
             => /\ Len(particles') >= Len(particles)
                /\ SubSeq(particles', 1, Len(particles)) = particles
                /\ UNCHANGED <<instanceCount, instanceTransform, instanceScale,
                               instanceColor, capacity, gravity>>]_vars

\* A render of the emitter has just appended a particle behind one that a render
\* of the particle system had advanced and published; the instance count is
\* still the one that render published.
C31_AppendedBehindRendered ==
    /\ lastOp.op = "emitterRender"
    /\ Len(calls) > 0
    /\ Len(particles) = 2
    /\ particles[1].lived > 0
    /\ particles[2].lived = 0
    /\ instanceCount = 1

(***************************************************************************)
(* C32: the scheduler that passes an elapsedTime to spawn and the draft    *)
(* that calls spawn() without one keep the same timing.  Run side by side  *)
(* on one configuration and one sequence of play(), stop() and render(dt)  *)
(* calls, the two are in the same state until a call tells them apart, so  *)
(* the claim is that no call does: from the state both are in, every call  *)
(* leaves isPlaying, currentTime and lastTimeParticleAmount as the draft's *)
(* call leaves them, and a render calls spawn as often as the draft's.     *)
(***************************************************************************)
C32_DraftKeepsTiming ==
    [][\A e \in emitters :
          lastOp'.emitter = e
             => \E after \in {CASE lastOp'.op = "play" -> draftPlay(e)
                                [] lastOp'.op = "stop" -> draftStop(e)
                                [] OTHER -> draftRender(e, lastOp'.deltaTime)} :
                   /\ isPlayingInternal'[e] = after.isPlayingInternal
                   /\ currentTime'[e] = after.currentTime
                   /\ lastTimeParticleAmount'[e] = after.lastTimeParticleAmount
                   /\ Len(calls') = after.invoked]_vars

(***************************************************************************)
(* Properties of the emitterScale of the rectangle emitter, under          *)
(* SpecScale.                                                              *)
(***************************************************************************)
\* With emitterScale s, what spawn asks for differs from what the spawn without
\* a scale multiplier asks for, with the same draws, by the factor s on the
\* position offset from the anchor, on the velocity and on every scale-curve
\* value, and by nothing in rotation, angular velocity, colour curve and opacity
\* curve.
ScaledBy(e, draws) ==
    LET scaled == spawnRequest(e, draws)
        unscaled == unscaledSpawnRequest(e, draws)
        s == options[e].emitterScale
    IN /\ scaled.position[1] - options[e].x = s * (unscaled.position[1] - options[e].x)
       /\ scaled.position[2] - options[e].y = s * (unscaled.position[2] - options[e].y)
       /\ scaled.velocity = <<s * unscaled.velocity[1], s * unscaled.velocity[2]>>
       /\ scaled.scaleOverTime =
              [i \in 1 .. Len(unscaled.scaleOverTime) |->
                  RatMul(Num(s), unscaled.scaleOverTime[i])]
       /\ scaled.rotation = unscaled.rotation
       /\ scaled.angularVelocity = unscaled.angularVelocity
       /\ scaled.colorOverTime = unscaled.colorOverTime
       /\ scaled.opacityOverTime = unscaled.opacityOverTime

(***************************************************************************)
(* C33 (as the code has it): emitterScale s multiplies the position offset *)
(* from the anchor, the velocity and every scale-curve value of what spawn *)
(* asks for, and affects neither the lifetime nor rotation, angular        *)
(* velocity, colour curve and opacity curve; the spawn without a scale     *)
(* multiplier asks, with the same draws, for the same values as the spawn  *)
(* with s = 1, except that it hands over the lifetime as                   *)
(* lifeTimeFactor = 1 / lifeTime where the scaled spawn hands over         *)
(* lifeTime.                                                               *)
(***************************************************************************)
C33_ScaleMultipliesOffsetVelocityAndScale ==
    \A e \in emitters, draws \in Draws :
        /\ ScaledBy(e, draws)
        /\ unscaledSpawnRequest(e, draws).lifeTimeFactor =
               Rat(1, spawnRequest(e, draws).lifeTime)
        /\ "lifeTime" \notin DOMAIN unscaledSpawnRequest(e, draws)
        /\ "lifeTimeFactor" \notin DOMAIN spawnRequest(e, draws)

\* C33 as stated: the same scaling, and with s = 1 what spawn asks for equals
\* what the spawn without a scale multiplier asks for with the same draws.
C33_UnitScaleEqualsUnscaled ==
    \A e \in emitters, draws \in Draws :
        /\ ScaledBy(e, draws)
        /\ options[e].emitterScale = 1
              => spawnRequest(e, draws) = unscaledSpawnRequest(e, draws)

\* A render has spawned, with emitterScale 2, a particle off the anchor that
\* moves: its offset and its velocity are twice those of the unscaled spawn.
C33_SpawnedAtTwiceTheOffset ==
    \E e \in emitters, draws \in Draws :
        /\ lastOp.op = "emitterRender"
        /\ lastOp.emitter = e
        /\ Len(calls) > 0
        /\ options[e].emitterScale = 2
        /\ Len(particles) > 0
        /\ particles[Len(particles)].preAged = 0
        /\ particles[Len(particles)].position = spawnRequest(e, draws).position
        /\ particles[Len(particles)].velocity = spawnRequest(e, draws).velocity
        /\ unscaledSpawnRequest(e, draws).position[1] > options[e].x
        /\ unscaledSpawnRequest(e, draws).velocity[1] > 0
        /\ particles[Len(particles)].position[1] - options[e].x =
               2 * (unscaledSpawnRequest(e, draws).position[1] - options[e].x)

====
